---- MODULE Spec2Model ----
(***************************************************************************)
(* DeepClaude_Pro: the streaming composition pipeline of                   *)
(* handlers.rs::chat_stream and the wire adapter of                        *)
(* clients/anthropic.rs::AnthropicClient::chat_stream.                     *)
(*                                                                         *)
(* A text is a sequence of tokens.  The token "S" stands for the sentinel  *)
(* substring "deepseek原始回答:", the token " " for white space, every     *)
(* other token for ordinary characters.                                    *)
(***************************************************************************)
EXTENDS Integers, Sequences, FiniteSets, TLC

\* ------------------------------------------------------------------ bounds
\* Reads from the two upstreams in one request: items pulled from the
\* Reasoning stream plus network chunks read from the Answer body.
MaxUpstreamReads == 3
\* Wall clock (seconds) up to which time is let to advance.
MaxClock == 32

\* ------------------------------------------------------- program constants
\* let heartbeat_interval = Duration::seconds(15);
HeartbeatSeconds == 15

\* ------------------------------------------------------------------- texts
Sentinel == "S"
Space == " "

\* Option<String>: None, Some(t); a JSON field may also be absent.
Absent == [tag |-> "absent"]
Null == [tag |-> "null"]
Some(t) == [tag |-> "some", text |-> t]
IsSome(o) == o.tag = "some"

\* str::contains("deepseek原始回答:")
ContainsSentinel(t) == \E i \in 1..Len(t) : t[i] = Sentinel

\* str::find("deepseek原始回答:") followed by &reasoning[idx..]
FromSentinel(t) ==
    LET idx == CHOOSE i \in 1..Len(t) :
                   t[i] = Sentinel /\ \A j \in 1..(i - 1) : t[j] # Sentinel
    IN  SubSeq(t, idx, Len(t))

RECURSIVE TrimStart(_)
TrimStart(t) ==
    IF t # <<>> /\ Head(t) = Space THEN TrimStart(Tail(t)) ELSE t

RECURSIVE TrimEnd(_)
TrimEnd(t) ==
    IF t # <<>> /\ t[Len(t)] = Space THEN TrimEnd(SubSeq(t, 1, Len(t) - 1)) ELSE t

\* str::trim()
Trim(t) == TrimEnd(TrimStart(t))

\* ----------------------------------------------------- outbound SSE frames
\* One frame handed to tx.send.  kind "chunk" is a chat.completion.chunk
\* JSON object, "done" the literal [DONE], "error" the error payload.
\* phase and at are bookkeeping: the phase of the task and the wall clock
\* at the moment the send completed.
Frame(kind, role, content, reasoning, finish, heartbeat) ==
    [kind |-> kind, role |-> role, content |-> content,
     reasoning_content |-> reasoning, finish_reason |-> finish,
     heartbeat |-> heartbeat]

\* A role chunk built without its role.
RoleEventWithoutRole == Frame("chunk", "absent", Absent, Absent, "null", FALSE)

\* json!({... "delta": {"role": "assistant"}, "finish_reason": null})
RoleEvent == Frame("chunk", "assistant", Absent, Absent, "null", FALSE)

\* delta: {content: null, reasoning_content: <text>, role: "assistant"}
ReasoningEvent(t) == Frame("chunk", "assistant", Null, Some(t), "null", FALSE)

\* delta: {content: <text>, reasoning_content: null, role: "assistant"}
ContentEvent(t) == Frame("chunk", "assistant", Some(t), Null, "null", FALSE)

\* delta: {}, finish_reason: null, heartbeat: true
HeartbeatEvent == Frame("chunk", "absent", Absent, Absent, "null", TRUE)

\* delta: {}, finish_reason: "stop"
FinishEvent == Frame("chunk", "absent", Absent, Absent, "stop", FALSE)

\* Event::default().data("[DONE]")
DoneEvent == Frame("done", "absent", Absent, Absent, "null", FALSE)

\* Event::default().data(format!(r#"data: {{"error": "{error_message}"}}"#))
ErrorEvent == Frame("error", "absent", Absent, Absent, "null", FALSE)

\* tx.send completed: the frame as it sits in the channel.
Stamp(f, ph, t) ==
    [kind |-> f.kind, role |-> f.role, content |-> f.content,
     reasoning_content |-> f.reasoning_content,
     finish_reason |-> f.finish_reason, heartbeat |-> f.heartbeat,
     phase |-> ph, at |-> t]

\* A send that hands the frame to the channel twice.
SendTwice(q, f) == q \o <<f, f>>

\* tx.send(Ok(Event::default().data(..))).await returning Ok: the channel
\* is first in, first out.
Send(q, f) == Append(q, f)

\* ------------------------------------------------------------------- state
VARIABLES
    mode,               \* get_mode(): "normal" or "full"
    response,           \* what chat_stream returned to the HTTP layer
    pc,                 \* position of the handler and of the spawned task
    rxOpen,             \* the receiver half of the channel is alive
    tx,                 \* frames accepted by tx.send, in order
    clock,              \* Utc::now()
    last_event_time,
    reasoning_content,
    normal_content,
    content_buffer,
    deepseek_stream,    \* "none", "open", "ended"
    dsPulled,           \* number of items pulled from deepseek_stream
    dsFailed,           \* deepseek_stream has yielded an Err
    dsArrived,          \* the deltas deepseek_stream delivered, in order
    anthropic_messages, \* synthetic assistant message pushed, if any
    combined_system_prompt, \* system prompt handed to the Answer client
    anthropic_stream,   \* "none", "created", "body", "returned", "dropped"
    anStatus,           \* status class of the Answer upstream response
    anChunks,           \* network chunks read from the Answer body
    pending,            \* events the adapter yielded, not yet pulled
    anArrived,          \* texts of the ContentBlockDelta events pulled
    anError,            \* type_ of the Err the Answer loop ended on
    request,            \* the ApiRequest
    headers,            \* the HeaderMap of the request
    env,                \* the .env file of the working directory
    tokens,             \* what extract_api_tokens returned
    dsRequests,         \* HTTP requests sent to the Reasoning upstream
    anRequests,         \* HTTP requests sent to the Answer upstream
    anthropic_response, \* chat: what anthropic_client.chat returned
    message,            \* chat: choices[0].message of the JSON response
    env_file,           \* the .env file on disk, line by line
    upc,                \* position of each call of update_env_variables
    env_content,        \* the env_content of each call
    payload,            \* the variables of each call
    seen,               \* what the last read of .env by a reader returned
    wire_body,          \* the lines of the body of an Answer response
    wire_read,          \* per run of the adapter: lines delivered so far
    wire_partial,       \* per run: the next line was delivered in part
    wire_split,         \* per run: the lines delivered in two pieces
    wire_events,        \* per run: the items the adapter yielded
    stream_ended,       \* per run: stream_ended
    client_pc,          \* position of one call of the Answer client
    config,             \* its ApiConfig, _api_token and stream flag
    api_url,            \* the endpoint it selected
    out_headers,        \* what build_headers returned
    out_request,        \* what build_request returned
    messages,           \* the messages handed to the Reasoning upstream
    deepseek_response   \* chat: what deepseek_client.chat returned

vars == <<mode, response, pc, rxOpen, tx, clock, last_event_time,
          reasoning_content, normal_content, content_buffer,
          deepseek_stream, dsArrived, anthropic_messages,
                   combined_system_prompt, anthropic_stream,
          anStatus, anChunks, pending, anArrived, dsPulled, dsFailed,
          anError, request, headers, env, tokens, dsRequests, anRequests,
          anthropic_response, message, env_file, upc, env_content, payload,
          seen, wire_body, wire_read, wire_partial, wire_split, wire_events,
          stream_ended, client_pc, config, api_url, out_headers,
          out_request, messages, deepseek_response>>

\* The .env file on disk and the calls that read and rewrite it.
envVars == <<env_file, upc, env_content, payload, seen>>

\* One response body and the runs of the wire adapter over it.
wireVars == <<wire_body, wire_read, wire_partial, wire_split, wire_events,
              stream_ended>>

\* One call of AnthropicClient::chat or chat_stream up to its POST.
clientVars == <<client_pc, config, api_url, out_headers, out_request>>

\* What the streaming task never touches.
chatVars == <<request, headers, env, tokens, anthropic_response, message,
              messages, deepseek_response>>

taskVars == <<last_event_time, reasoning_content, normal_content,
              content_buffer, deepseek_stream, dsArrived, anthropic_messages,
                   combined_system_prompt,
              anthropic_stream, anStatus, anChunks, pending, anArrived,
              dsPulled, dsFailed, anError>>

Modes == {"normal", "full"}

\* -------------------------------------------------- request and credentials
\* request.messages by what the handlers and the clients ask of it: no
\* message at all, user messages only, a system message among them, or a
\* last message of role assistant whose content is blank.
MessagesKinds == {"empty", "user", "system_inline", "assistant_blank"}

\* ApiRequest: stream, messages and whether the top-level system is Some.
Requests ==
    [stream : BOOLEAN, messages : MessagesKinds, system : BOOLEAN]

\* The two headers extract_api_tokens reads.  authorization: the header is
\* absent, present without the "Bearer " prefix, or a bearer token.
HeaderMaps ==
    [authorization : {"absent", "basic", "bearer"},
     x_anthropic_api_token : BOOLEAN]

\* The .env file of the working directory: whether it exists and which of
\* the two keys have a line in it.
EnvKeys == {"DEEPSEEK_API_KEY", "ANTHROPIC_API_KEY"}
NoEnvFile == [exists |-> FALSE, keys |-> {}]
EnvFiles == {NoEnvFile} \cup {[exists |-> TRUE, keys |-> k] : k \in SUBSET EnvKeys}

\* ApiRequest::validate_system_prompt: false when a system prompt is given
\* both top-level and inline.
ValidateSystemPrompt(req) == ~(req.system /\ req.messages = "system_inline")

\* The HTTP status an outcome of the handler is answered with; 0 while
\* there is none.
StatusCode(resp) ==
    CASE resp = "InvalidSystemPrompt" -> 400
      [] resp = "MissingHeader" -> 401
      [] resp \in {"Sse", "Json"} -> 200
      [] resp \in {"DeepSeekError", "AnthropicError"} -> 502
      [] OTHER -> 0

\* match (deepseek_key, anthropic_key) { (Some(d), Some(a)) => Some((d, a)),
\* _ => None }, None also when the file does not exist.
GetEnvApiTokens(e) ==
    IF e.exists /\ EnvKeys \subseteq e.keys
      THEN Some(<<"env_deepseek", "env_anthropic">>)
      ELSE Null

\* Result<(String, String)> of extract_api_tokens.
NoTokens == [tag |-> "none", deepseek |-> "", anthropic |-> "", header |-> <<>>]
TokensOk(d, a) == [tag |-> "Ok", deepseek |-> d, anthropic |-> a, header |-> <<>>]
TokensErr(missing) ==
    [tag |-> "Err", deepseek |-> "", anthropic |-> "", header |-> missing]

\* A resolution that hands on whatever it found, complete or not.
ExtractApiTokensUnchecked(h, e) ==
    TokensOk(IF h.authorization = "bearer" THEN "header_deepseek" ELSE "",
             IF h.x_anthropic_api_token THEN "header_anthropic" ELSE "")

\* A resolution that asks the .env file before the headers.
ExtractApiTokensEnvFirst(h, e) ==
    LET env_tokens == GetEnvApiTokens(e)
    IN  IF IsSome(env_tokens)
          THEN TokensOk(env_tokens.text[1], env_tokens.text[2])
        ELSE IF h.authorization = "bearer" /\ h.x_anthropic_api_token
          THEN TokensOk("header_deepseek", "header_anthropic")
        ELSE TokensErr(
                 (IF h.authorization # "bearer"
                    THEN <<"Authorization">> ELSE <<>>)
                 \o (IF ~h.x_anthropic_api_token
                       THEN <<"X-Anthropic-API-Token">> ELSE <<>>))

\* extract_api_tokens(headers): the pair of the headers, else the pair of
\* .env, else MissingHeader naming the headers that gave no token.
ExtractApiTokens(h, e) ==
    LET deepseek_token ==
            IF h.authorization = "bearer" THEN Some("header_deepseek") ELSE Null
        anthropic_token ==
            IF h.x_anthropic_api_token THEN Some("header_anthropic") ELSE Null
        env_tokens == GetEnvApiTokens(e)
        missing_headers ==
            (IF deepseek_token = Null THEN <<"Authorization">> ELSE <<>>)
            \o (IF anthropic_token = Null
                  THEN <<"X-Anthropic-API-Token">> ELSE <<>>)
    IN  IF IsSome(deepseek_token) /\ IsSome(anthropic_token)
          THEN TokensOk(deepseek_token.text, anthropic_token.text)
        ELSE IF IsSome(env_tokens)
          THEN TokensOk(env_tokens.text[1], env_tokens.text[2])
        ELSE TokensErr(missing_headers)

\* DeepSeekClient::chat and DeepSeekClient::chat_stream: one call of the
\* client POSTs once.
DeepSeekPost(n) == n + 1

\* ------------------------------------------------------------ the .env file
\* One line KEY=value of the file.
EnvLine(key, value) == [key |-> key, value |-> value]

\* The file at current_dir()/.env: absent, or its lines in order.
NoFile == [exists |-> FALSE, lines |-> <<>>]
FileOf(lines) == [exists |-> TRUE, lines |-> lines]

\* Nothing was read yet.
Unread == [tag |-> "unread"]

\* A file that holds a line for each key of e.
EnvFileOf(e) ==
    IF ~e.exists THEN NoFile
    ELSE FileOf((IF "DEEPSEEK_API_KEY" \in e.keys
                   THEN <<EnvLine("DEEPSEEK_API_KEY", "0")>> ELSE <<>>)
                \o (IF "ANTHROPIC_API_KEY" \in e.keys
                      THEN <<EnvLine("ANTHROPIC_API_KEY", "0")>> ELSE <<>>))

\* let mut env_content = match fs::read_to_string(&env_path) {
\*     Ok(content) => content, Err(_) => String::new() };
ReadOrEmpty(file) == IF file.exists THEN file.lines ELSE <<>>

\* The words of a variable name, and str::ends_with on them.
KeyWords(name) ==
    CASE name = "API_KEY" -> <<"API", "KEY">>
      [] name = "DEEPSEEK_API_KEY" -> <<"DEEPSEEK", "API", "KEY">>
      [] name = "ANTHROPIC_API_KEY" -> <<"ANTHROPIC", "API", "KEY">>
      [] OTHER -> <<name>>
EndsWith(s, p) ==
    Len(s) >= Len(p) /\ SubSeq(s, Len(s) - Len(p) + 1, Len(s)) = p

\* env_content.find(&format!("{}=", key)) finds the text anywhere: in the
\* line of the key and in the line of a key that ends with it.
Finds(line, key) == EndsWith(KeyWords(line.key), KeyWords(key))

\* One turn of `for (key, value) in payload.variables`: old_line runs from
\* the first place found to the end of that line, every occurrence of it
\* is replaced by key=value, and without a place found a new line is
\* pushed at the end.
UpdateLine(content, key, value) ==
    LET hits == {i \in 1..Len(content) : Finds(content[i], key)}
    IN  IF hits # {}
          THEN LET line_start == CHOOSE i \in hits : \A j \in hits : i <= j
                   old_value == content[line_start].value
               IN  [j \in 1..Len(content) |->
                       IF Finds(content[j], key) /\ content[j].value = old_value
                         THEN EnvLine(content[j].key, value)
                         ELSE content[j]]
          ELSE Append(content, EnvLine(key, value))

\* file.write_all(env_content.as_bytes()) on the handle File::create gave:
\* the bytes go to offset 0 and on, what the file holds beyond them stays.
WriteAll(file, data) ==
    LET n == IF Len(file.lines) > Len(data) THEN Len(file.lines) ELSE Len(data)
    IN  FileOf([i \in 1..n |-> IF i <= Len(data) THEN data[i]
                                                ELSE file.lines[i]])

\* The calls of update_env_variables in flight.
Updaters == {1, 2}

\* No call of update_env_variables is in flight and nothing was read.
EnvIdle ==
    /\ upc = [u \in Updaters |-> "start"]
    /\ env_content = [u \in Updaters |-> <<>>]
    /\ payload = [u \in Updaters |-> EnvLine("MODE", "full")]
    /\ seen = Unread

\* Result<AnthropicResponse> of AnthropicClient::chat; posted tells whether
\* the POST was sent, status the class of the HTTP status it met.
NoResponse ==
    [tag |-> "none", type_ |-> "", posted |-> FALSE, status |-> "none",
     content |-> <<>>]
ChatOk(status, content) ==
    [tag |-> "Ok", type_ |-> "", posted |-> TRUE, status |-> status,
     content |-> content]
ChatErr(type_, posted, status) ==
    [tag |-> "Err", type_ |-> type_, posted |-> posted, status |-> status,
     content |-> <<>>]

\* ResponseMessage { role, content, reasoning_content }
NoMessage == [content |-> <<>>, reasoning_content |-> Absent]

\* The runs of the wire adapter that are compared: one response body read
\* through two splits into network chunks.
Runs == {"one", "other"}

\* No response body is being read.
WireIdle ==
    /\ wire_body = <<>>
    /\ wire_read = [r \in Runs |-> 0]
    /\ wire_partial = [r \in Runs |-> FALSE]
    /\ wire_split = [r \in Runs |-> {}]
    /\ wire_events = [r \in Runs |-> <<>>]
    /\ stream_ended = [r \in Runs |-> FALSE]

\* ------------------------------------------- the Answer client's call
\* Model names, a word for each part between dashes.
ClaudeDefaultModel == <<"wild", "3", "7", "sonnet", "20250219">>
ModelNames ==
    {<<"deepseek", "r1">>, <<"deepclaude">>,
     <<"claude", "3", "opus", "20240229">>, <<"claude", "opus", "4">>,
     <<"claude", "3", "7", "sonnet">>}

\* str::starts_with and str::contains on names split into words.
StartsWith(s, p) == Len(s) >= Len(p) /\ SubSeq(s, 1, Len(p)) = p
Contains(s, p) ==
    \E i \in 1..(Len(s) + 1) :
        i + Len(p) - 1 <= Len(s) /\ SubSeq(s, i, i + Len(p) - 1) = p

\* serde_json::Value: a string, a number, a boolean or an array, with its
\* text.
JStr(s) == [t |-> "str", v |-> s]
JNum(n) == [t |-> "num", v |-> <<n>>]
JBool(b) == [t |-> "bool", v |-> <<IF b THEN "true" ELSE "false">>]
JArr(a) == [t |-> "array", v |-> <<a>>]

\* HashMap::insert / HeaderMap::insert, and extend.
MapInsert(m, key, value) ==
    [k \in DOMAIN m \cup {key} |-> IF k = key THEN value ELSE m[k]]
MapExtend(m, other) ==
    [k \in DOMAIN m \cup DOMAIN other |->
        IF k \in DOMAIN other THEN other[k] ELSE m[k]]

\* content.lines().find(|line| line.starts_with("KEY="))
\*     .and_then(|line| line.split('=').nth(1)), None without the file.
ReadEnvFromDotenv(file, key) ==
    LET hits == {i \in 1..Len(file.lines) : file.lines[i].key = key}
    IN  IF ~file.exists \/ hits = {} THEN Null
        ELSE Some(file.lines[CHOOSE i \in hits : \A j \in hits : i <= j].value)

\* The hardcoded fallbacks of the getters.
DefaultUrl == "default"
GetAnthropicApiUrl(file) ==
    LET v == ReadEnvFromDotenv(file, "ANTHROPIC_API_URL")
    IN  IF IsSome(v) THEN v.text ELSE DefaultUrl
GetClaudeOpenaiTypeApiUrl(file) ==
    LET v == ReadEnvFromDotenv(file, "CLAUDE_OPENAI_TYPE_API_URL")
    IN  IF IsSome(v) THEN v.text ELSE DefaultUrl
GetDeepseekOpenaiTypeApiUrl(file) ==
    LET v == ReadEnvFromDotenv(file, "DEEPSEEK_OPENAI_TYPE_API_URL")
    IN  IF IsSome(v) THEN v.text ELSE DefaultUrl
GetClaudeDefaultModel(file) ==
    LET v == ReadEnvFromDotenv(file, "CLAUDE_DEFAULT_MODEL")
    IN  IF IsSome(v) THEN <<v.text>> ELSE ClaudeDefaultModel

\* match (openai_url, anthropic_url) {
\*     (Some(o), _) if !o.trim().is_empty() => true,
\*     (_, Some(a)) if !a.trim().is_empty() => false,
\*     _ => true }
ShouldUseOpenaiFormat(file) ==
    LET openai_url == ReadEnvFromDotenv(file, "CLAUDE_OPENAI_TYPE_API_URL")
        anthropic_url == ReadEnvFromDotenv(file, "ANTHROPIC_API_URL")
    IN  IF IsSome(openai_url) /\ openai_url.text # "" THEN TRUE
        ELSE IF IsSome(anthropic_url) /\ anthropic_url.text # "" THEN FALSE
        ELSE TRUE

\* model_value, model_str and _is_deepseek of chat and chat_stream.
ModelValue(file, body) ==
    IF "model" \in DOMAIN body THEN body["model"]
                               ELSE JStr(GetClaudeDefaultModel(file))
ModelStr(file, body) ==
    LET model_value == ModelValue(file, body)
    IN  IF model_value.t = "str" THEN model_value.v
                                 ELSE GetClaudeDefaultModel(file)
IsDeepseek(model_str) ==
    StartsWith(model_str, <<"deepseek">>) \/ model_str = <<"deepclaude">>

\* let api_url = if _is_deepseek { .. } else if should_use_openai_format()
\* { .. } else { .. }, with the _is_deepseek it was chosen under.
NoUrl == [is_deepseek |-> FALSE, endpoint |-> "none", url |-> ""]
SelectApiUrl(file, body) ==
    LET _is_deepseek == IsDeepseek(ModelStr(file, body))
    IN  IF _is_deepseek
          THEN [is_deepseek |-> TRUE, endpoint |-> "deepseek",
                url |-> GetDeepseekOpenaiTypeApiUrl(file)]
        ELSE IF ShouldUseOpenaiFormat(file)
          THEN [is_deepseek |-> FALSE, endpoint |-> "openai",
                url |-> GetClaudeOpenaiTypeApiUrl(file)]
        ELSE [is_deepseek |-> FALSE, endpoint |-> "anthropic",
              url |-> GetAnthropicApiUrl(file)]

\* HeaderName: names compare without case, the map keeps them in lower case.
Lower(name) ==
    CASE name = "Authorization" -> "authorization"
      [] name = "X-Api-Key" -> "x-api-key"
      [] name = "Content-Type" -> "content-type"
      [] OTHER -> name

\* A name the http crate refuses.
InvalidHeaderName(name) == name = "bad name"

\* format!("Bearer {}", token)
Bearer(token) == <<"Bearer", token>>

\* Result<HeaderMap>
HeadersOk(h) == [ok |-> TRUE, headers |-> h]
HeadersErr == [ok |-> FALSE, headers |-> <<>>]
NoHeaders == [ok |-> FALSE, headers |-> <<"none">>]

\* clients::build_headers: each entry of the mapping becomes a header, or
\* an error on a name or value that is no header.
ClientsBuildHeaders(custom) ==
    IF \E k \in DOMAIN custom : InvalidHeaderName(k) THEN HeadersErr
    ELSE HeadersOk([n \in {Lower(k) : k \in DOMAIN custom} |->
                       custom[CHOOSE k \in DOMAIN custom : Lower(k) = n]])

\* The headers of each authentication arm of build_headers.
BearerAuth(token) == MapInsert(<<>>, "authorization", Bearer(token))
AnthropicAuthBearerOnly(token) ==
    MapInsert(MapInsert(<<>>,
        "authorization", Bearer(token)),
        "accept", <<"text/event-stream">>)
AnthropicAuth(token) ==
    MapInsert(MapInsert(MapInsert(MapInsert(<<>>,
        "x-api-key", <<token>>),
        "authorization", Bearer(token)),
        "anthropic-version", <<"2023-06-01">>),
        "accept", <<"text/event-stream">>)

\* headers.extend(super::build_headers(custom)?)
ExtendCustom(h, custom) ==
    LET more == ClientsBuildHeaders(custom)
    IN  IF more.ok THEN HeadersOk(MapExtend(h, more.headers))
                   ELSE HeadersErr

\* AnthropicClient::build_headers
BuildHeaders(file, _api_token, custom_headers, is_deepseek) ==
    LET deepseek_token == ReadEnvFromDotenv(file, "DEEPSEEK_API_KEY")
        anthropic_token == ReadEnvFromDotenv(file, "ANTHROPIC_API_KEY")
        common(h) ==
            ExtendCustom(MapInsert(h, "content-type", <<"application/json">>),
                         custom_headers)
    IN  IF is_deepseek
          THEN IF IsSome(deepseek_token)
                 THEN common(BearerAuth(deepseek_token.text))
                 ELSE HeadersErr
        ELSE IF ShouldUseOpenaiFormat(file)
          THEN common(BearerAuth(_api_token))
        ELSE IF IsSome(anthropic_token)
          THEN common(AnthropicAuth(anthropic_token.text))
        ELSE HeadersErr

\* let default_max_tokens = if let Some(model_str) = model_value.as_str() {
\*     if model_str.contains("claude-3-opus") { 4096 } else { 8192 }
\* } else { 8192 }
DefaultMaxTokens(model_value) ==
    IF model_value.t = "str"
          /\ Contains(model_value.v, <<"claude", "3", "opus">>)
      THEN JNum("4096") ELSE JNum("8192")

\* The keys build_request removes from config.body before the merge.
ProtectedFields == {"stream", "messages", "system"}
MergeableNone(body) == body
Mergeable(body) == [k \in DOMAIN body \ ProtectedFields |-> body[k]]

\* AnthropicClient::build_request; filtered_messages stands for the
\* messages the caller of the client passed, filtered.
FilteredMessages == JArr("filtered_messages")
BuildRequest(file, system, stream, body) ==
    LET model_value == ModelValue(file, body)
        get(key, default) == IF key \in DOMAIN body THEN body[key] ELSE default
        base ==
            [k \in {"messages", "stream", "model", "max_tokens",
                    "temperature", "top_p"} |->
                CASE k = "messages" -> FilteredMessages
                  [] k = "stream" -> JBool(stream)
                  [] k = "model" -> model_value
                  [] k = "max_tokens" ->
                        get("max_tokens", DefaultMaxTokens(model_value))
                  [] k = "temperature" -> get("temperature", JNum("0.7"))
                  [] k = "top_p" -> get("top_p", JNum("0.95"))]
        with_system ==
            IF IsSome(system) THEN MapInsert(base, "system", JStr(system.text))
                              ELSE base
    IN  MapExtend(with_system, Mergeable(body))

\* No call of the client is being followed.
ClientIdle ==
    /\ client_pc = "idle"
    /\ config = [body |-> <<>>, headers |-> <<>>, _api_token |-> "",
                 system |-> Null, stream |-> FALSE]
    /\ api_url = NoUrl
    /\ out_headers = NoHeaders
    /\ out_request = <<>>

\* The state at the entry of handle_chat, the request apart.
InitTask ==
    /\ mode \in Modes
    /\ response = "pending"
    /\ pc = "request"
    /\ rxOpen = TRUE
    /\ tx = <<>>
    /\ clock = 0
    /\ last_event_time = 0
    /\ reasoning_content = <<>>
    /\ normal_content = <<>>
    /\ content_buffer = <<>>
    /\ deepseek_stream = "none"
    /\ dsArrived = <<>>
    /\ anthropic_messages = Absent
    /\ combined_system_prompt = Absent
    /\ anthropic_stream = "none"
    /\ anStatus = "none"
    /\ anChunks = 0
    /\ pending = <<>>
    /\ anArrived = <<>>
    /\ dsPulled = 0
    /\ dsFailed = FALSE
    /\ anError = "none"
    /\ tokens = NoTokens
    /\ dsRequests = 0
    /\ anRequests = 0
    /\ anthropic_response = NoResponse
    /\ message = NoMessage
    /\ messages = <<>>
    /\ deepseek_response = Null

\* A request with user messages and a top-level system prompt, with or
\* without a system message inline, that brings both credentials in its
\* headers or none at all.
Init ==
    /\ InitTask
    /\ request \in [stream : BOOLEAN, messages : {"user", "system_inline"},
                    system : {TRUE}]
    /\ headers \in {h \in HeaderMaps :
                       /\ h.authorization # "basic"
                       /\ h.x_anthropic_api_token = (h.authorization = "bearer")}
    /\ env = NoEnvFile
    /\ env_file = EnvFileOf(env)
    /\ EnvIdle
    /\ WireIdle
    /\ ClientIdle

\* Any request, any headers, any .env file.
InitRequests ==
    /\ InitTask
    /\ request \in Requests
    /\ headers \in HeaderMaps
    /\ env \in EnvFiles
    /\ env_file = EnvFileOf(env)
    /\ EnvIdle
    /\ WireIdle
    /\ ClientIdle

\* CompositionState.phase, read off the position of the task: the task is
\* in the Reasoning phase until the first loop has ended.
Phase == IF pc \in {"spawned", "reasoning"} THEN "Reasoning" ELSE "Answer"

\* --------------------------------------------------------- handler entry
\* The head of chat and of chat_stream: validate_system_prompt, then
\* extract_api_tokens, each with its early return.
\* Message { role, content }
Msg(role, content) == [role |-> role, content |-> content]

\* The caller's top-level system prompt, as a message.
SystemMessage == Msg("system", "caller_system")

\* request.messages, a list for each kind.
MessagesOf(kind) ==
    CASE kind = "empty" -> <<>>
      [] kind = "user" ->
             <<Msg("user", "u1"), Msg("assistant", "a1"), Msg("user", "u2")>>
      [] kind = "system_inline" ->
             <<Msg("user", "u1"), Msg("system", "inline_system"),
               Msg("user", "u2")>>
      [] kind = "assistant_blank" ->
             <<Msg("user", "u1"), Msg("assistant", "")>>

\* ApiRequest::get_messages_with_system: the caller's messages, with the
\* top-level system prompt in front as a message when there is one.
GetMessagesWithSystem(req) ==
    (IF req.system THEN <<SystemMessage>> ELSE <<>>)
        \o MessagesOf(req.messages)

\* The else arm of `let messages = if mode == "full"`: the system message
\* if request.system is Some, then request.messages without those whose
\* role is System.
NormalMessagesUnfiltered(req) ==
    (IF req.system THEN <<SystemMessage>> ELSE <<>>)
        \o MessagesOf(req.messages)
NormalMessages(req) ==
    (IF req.system THEN <<SystemMessage>> ELSE <<>>)
        \o SelectSeq(MessagesOf(req.messages), LAMBDA m : m.role # "system")

ReasoningMessages(m, req) ==
    IF m = "full" THEN GetMessagesWithSystem(req) ELSE NormalMessages(req)

ValidateAndExtract(acceptedPc, acceptedResponse) ==
    /\ pc = "request"
    /\ IF ~ValidateSystemPrompt(request)
         THEN /\ response' = "InvalidSystemPrompt"
              /\ pc' = "rejected"
              /\ tokens' = tokens
         ELSE LET t == ExtractApiTokens(headers, env)
              IN  /\ tokens' = t
                  /\ IF t.tag = "Err"
                       THEN /\ response' = "MissingHeader"
                            /\ pc' = "rejected"
                       ELSE /\ response' = acceptedResponse
                            /\ pc' = acceptedPc
    /\ messages' = IF pc' = acceptedPc THEN ReasoningMessages(mode, request)
                                       ELSE messages
    /\ UNCHANGED <<mode, rxOpen, tx, clock, request, headers, env,
                   dsRequests, anRequests, anthropic_response, message,
                   deepseek_response>>
    /\ UNCHANGED taskVars
    /\ UNCHANGED envVars
    /\ UNCHANGED wireVars
    /\ UNCHANGED clientVars

\* handle_chat with request.stream: chat_stream up to tokio::spawn.  Past
\* the two early returns the channel is created and the stream is handed
\* back as the HTTP response.
ChatStream ==
    /\ request.stream
    /\ ValidateAndExtract("spawned", "Sse")

\* handle_chat without request.stream: chat up to the call of the
\* Reasoning upstream.
Chat ==
    /\ ~request.stream
    /\ ValidateAndExtract("chat_deepseek", "pending")

\* The client goes away: the response body, and rx with it, is dropped.
ClientDisconnect ==
    /\ response = "Sse"
    /\ pc \in {"spawned", "reasoning", "answer"}
    /\ rxOpen
    /\ rxOpen' = FALSE
    /\ UNCHANGED <<mode, response, pc, tx, clock>>
    /\ UNCHANGED taskVars
    /\ UNCHANGED chatVars
    /\ UNCHANGED <<dsRequests, anRequests>>
    /\ UNCHANGED envVars
    /\ UNCHANGED wireVars
    /\ UNCHANGED clientVars

\* Wall time passes while the task is suspended.
Tick(step) ==
    /\ pc \in {"reasoning", "answer"}
    /\ clock + step <= MaxClock
    /\ clock' = clock + step
    /\ UNCHANGED <<mode, response, pc, rxOpen, tx>>
    /\ UNCHANGED taskVars
    /\ UNCHANGED chatVars
    /\ UNCHANGED <<dsRequests, anRequests>>
    /\ UNCHANGED envVars
    /\ UNCHANGED wireVars
    /\ UNCHANGED clientVars

\* The spawned task up to the first loop: the reasoning stream is created,
\* last_event_time is initialised and the role event is sent.
TaskStart ==
    /\ pc = "spawned"
    /\ deepseek_stream' = "open"
    /\ last_event_time' = clock
    /\ IF rxOpen
         THEN /\ tx' = Send(tx, Stamp(RoleEvent, Phase, clock))
              /\ pc' = "reasoning"
         ELSE /\ tx' = tx
              /\ pc' = "ended"
    /\ UNCHANGED <<mode, response, rxOpen, clock, reasoning_content,
                   normal_content, content_buffer, dsArrived,
                   anthropic_messages,
                   combined_system_prompt, anthropic_stream, anStatus, anChunks,
                   pending, anArrived, dsPulled, dsFailed, anError>>
    /\ dsRequests' = DeepSeekPost(dsRequests)
    /\ UNCHANGED chatVars
    /\ UNCHANGED anRequests
    /\ UNCHANGED envVars
    /\ UNCHANGED wireVars
    /\ UNCHANGED clientVars

\* ------------------------------------------------------- Reasoning phase
\* An item of deepseek_stream: Err(e), or Ok(response) whose first choice,
\* if any, carries delta.reasoning_content and delta.content.
DsErr == [ok |-> FALSE]
DsOk(choice, reasoning, content) ==
    [ok |-> TRUE, choice |-> choice, reasoning_content |-> reasoning,
     content |-> content]

\* if let Ok(response) = result { if let Some(choice) = ...first() {
HasChoice(item) == item.ok /\ item.choice

\* if let Some(reasoning) = &choice.delta.reasoning_content
\*     { if !reasoning.is_empty() {
ReasoningPresent(item) ==
    /\ HasChoice(item)
    /\ IsSome(item.reasoning_content)
    /\ item.reasoning_content.text # <<>>

\* A filter that lets every reasoning delta through.
ShouldSendAlways(m, reasoning) == TRUE

\* let should_send = mode != "full" || reasoning.contains("deepseek原始回答:");
ShouldSend(m, reasoning) == m # "full" \/ ContainsSentinel(reasoning)

\* A cut at the sentinel that does not ask for the mode.
ContentToSendFromSentinel(m, reasoning) ==
    IF ContainsSentinel(reasoning) THEN FromSentinel(reasoning) ELSE reasoning

\* let content_to_send = if mode == "full" && reasoning.contains(..) {..}
ContentToSend(m, reasoning) ==
    IF m = "full" /\ ContainsSentinel(reasoning)
      THEN FromSentinel(reasoning)
      ELSE reasoning

\* if let Some(content) = &choice.delta.content { if !content.is_empty() {
ContentPresent(item) ==
    /\ HasChoice(item)
    /\ IsSome(item.content)
    /\ item.content.text # <<>>

\* A prefix put before every content fragment.
NormalAsReasoningAlwaysPrefixed(is_first_content, content) ==
    <<Sentinel>> \o content

\* "reasoning_content": if is_first_content { format!("deepseek原始回答:{}",
\* content) } else { content.to_string() }
NormalAsReasoning(is_first_content, content) ==
    IF is_first_content THEN <<Sentinel>> \o content ELSE content

\* A first loop that goes on after a send that failed.
AfterReasoningSendGoesOn(failed) == "reasoning"

\* if let Err(e) = tx.send(..).await { tracing::error!(..); return; }
AfterReasoningSend(failed) == IF failed THEN "ended" ELSE "reasoning"

\* A first loop that is still running beside the second.
InEitherLoop == pc \in {"reasoning", "answer"}

\* The task is in `while let Some(result) = deepseek_stream.next().await`.
InReasoningLoop == pc = "reasoning"

\* The deltas an item delivers: its reasoning_content, then its content.
Deltas(item) ==
    IF ~HasChoice(item) THEN <<>>
    ELSE (IF IsSome(item.reasoning_content)
            THEN <<[field |-> "reasoning_content",
                    text |-> item.reasoning_content.text]>>
            ELSE <<>>)
         \o (IF IsSome(item.content)
               THEN <<[field |-> "content", text |-> item.content.text]>>
               ELSE <<>>)

\* One iteration of `while let Some(result) = deepseek_stream.next().await`
\* with Some(item); d is the time each tx.send takes to complete.
ReasoningItem(item, d) ==
    /\ InReasoningLoop
    /\ dsPulled + anChunks < MaxUpstreamReads
    /\ LET rOn    == ReasoningPresent(item)
           rText  == item.reasoning_content.text
           rSend  == rOn /\ ShouldSend(mode, rText)
           rFail  == rSend /\ ~rxOpen
           t1     == IF rSend /\ rxOpen THEN clock + d ELSE clock
           tx1    == IF rSend /\ rxOpen
                       THEN Send(tx, Stamp(ReasoningEvent(
                                ContentToSend(mode, rText)), Phase, t1))
                       ELSE tx
           let1   == IF rSend /\ rxOpen THEN t1 ELSE last_event_time
           cOn    == ~rFail /\ ContentPresent(item)
           cText  == item.content.text
           first  == normal_content = <<>>
           cSend  == cOn /\ mode = "full"
           cFail  == cSend /\ ~rxOpen
           t2     == IF cSend /\ rxOpen THEN t1 + d ELSE t1
           tx2    == IF cSend /\ rxOpen
                       THEN Send(tx1, Stamp(ReasoningEvent(
                                NormalAsReasoning(first, cText)),
                                Phase, t2))
                       ELSE tx1
           let2   == IF cSend /\ rxOpen THEN t2 ELSE let1
       IN  /\ t2 <= MaxClock
           /\ dsPulled' = dsPulled + 1
           /\ dsFailed' = (dsFailed \/ ~item.ok)
           /\ dsArrived' = dsArrived \o Deltas(item)
           /\ reasoning_content' =
                  IF rOn THEN reasoning_content \o rText ELSE reasoning_content
           /\ normal_content' =
                  IF cOn THEN normal_content \o cText ELSE normal_content
           /\ tx' = tx2
           /\ clock' = t2
           /\ last_event_time' = let2
           /\ pc' = AfterReasoningSend(rFail \/ cFail)
    /\ UNCHANGED <<mode, response, rxOpen, content_buffer, deepseek_stream,
                   anthropic_messages,
                   combined_system_prompt, anthropic_stream, anStatus, anChunks,
                   pending, anArrived, anError>>
    /\ UNCHANGED chatVars
    /\ UNCHANGED <<dsRequests, anRequests>>
    /\ UNCHANGED envVars
    /\ UNCHANGED wireVars
    /\ UNCHANGED clientVars

\* ApiRequest::get_system_prompt: the caller's system prompt, given
\* top-level or inline, if any.
GetSystemPrompt(req) ==
    IF req.system \/ req.messages = "system_inline"
      THEN Some(<<"caller_system">>)
      ELSE Absent

\* let claude_system_prompt = "Act as an expert software developer ..." of
\* chat: the token stands for its seven lines.
ClaudeSystemPromptChat == <<"SEARCH/REPLACE">>

\* The claude_system_prompt of chat_stream: the same seven lines and the
\* line "Always reply to the user in chinese.".
ClaudeSystemPromptStream ==
    <<"SEARCH/REPLACE", "Always reply to the user in chinese.">>

\* let combined_system_prompt = if mode == "full" { Some(match
\* request.get_system_prompt() { Some(user_system) => format!("{}\n\n{}",
\* claude_system_prompt, user_system), None => claude_system_prompt }) }
\* else { request.get_system_prompt() }
CombinedSystemPrompt(m, claude_system_prompt, req) ==
    LET user_system == GetSystemPrompt(req)
    IN  IF m = "full"
          THEN Some(IF IsSome(user_system)
                      THEN claude_system_prompt \o <<"\n\n">>
                               \o user_system.text
                      ELSE claude_system_prompt)
          ELSE user_system

\* A thinking message that is pushed in normal mode whatever the reasoning.
ThinkingMessageAlways(m, reasoning, normal) ==
    IF m = "full"
      THEN IF Trim(normal) # <<>>
             THEN Some(<<"<thinking>", Sentinel>> \o Trim(normal)
                       \o <<"</thinking>">>)
             ELSE Absent
      ELSE Some(<<"<thinking>">> \o reasoning \o <<"</thinking>">>)

\* A thinking message that falls back on the reasoning in full mode.
ThinkingMessageFallsBack(m, reasoning, normal) ==
    IF m = "full" /\ Trim(normal) # <<>>
      THEN Some(<<"<thinking>", Sentinel>> \o Trim(normal)
                \o <<"</thinking>">>)
    ELSE IF Trim(reasoning) # <<>>
      THEN Some(<<"<thinking>">> \o reasoning \o <<"</thinking>">>)
    ELSE Absent

\* if mode == "full" { if !normal_content.trim().is_empty() { push(..) } }
\* else { if !reasoning_content.trim().is_empty() { push(..) } }
\* The tokens "<thinking>" and "</thinking>" stand for "<thinking>\n" and
\* "</thinking>".
ThinkingMessage(m, reasoning, normal) ==
    IF m = "full"
      THEN IF Trim(normal) # <<>>
             THEN Some(<<"<thinking>", Sentinel>> \o Trim(normal)
                       \o <<"</thinking>">>)
             ELSE Absent
      ELSE IF Trim(reasoning) # <<>>
             THEN Some(<<"<thinking>">> \o reasoning \o <<"</thinking>">>)
             ELSE Absent

\* deepseek_stream.next() returned None: the loop ends, the Answer prompt
\* is built and anthropic_client.chat_stream(..) creates the (lazy) stream,
\* which is a single Err when build_headers fails.
ReasoningEnd(headersOk) ==
    /\ InReasoningLoop
    /\ deepseek_stream' = "ended"
    /\ anthropic_messages' =
           ThinkingMessage(mode, reasoning_content, normal_content)
    /\ combined_system_prompt' =
           CombinedSystemPrompt(mode, ClaudeSystemPromptStream, request)
    /\ anthropic_stream' = IF headersOk THEN "created" ELSE "once_err"
    /\ pc' = "answer"
    /\ UNCHANGED <<mode, response, rxOpen, tx, clock, last_event_time,
                   reasoning_content, normal_content, content_buffer,
                   dsArrived, anStatus, anChunks, pending, anArrived,
                   dsPulled, dsFailed, anError>>
    /\ UNCHANGED chatVars
    /\ UNCHANGED <<dsRequests, anRequests>>
    /\ UNCHANGED envVars
    /\ UNCHANGED wireVars
    /\ UNCHANGED clientVars

\* --------------------------------------- wire adapter of the Answer stream
\* Result<StreamEvent> items of anthropic_stream.
EvDelta(t) == [ok |-> TRUE, ev |-> "ContentBlockDelta", text |-> t]
EvStop == [ok |-> TRUE, ev |-> "MessageStop"]
EvOther(name) == [ok |-> TRUE, ev |-> name]
\* eof: e.to_string() contains "EOF while parsing" or "unexpected end of
\* input".
EvErr(type_, eof) == [ok |-> FALSE, type_ |-> type_, eof |-> eof]

\* The lines of one network chunk, by the branch of the decoder they take.
LBlank == [k |-> "blank"]                \* line.trim().is_empty()
LNonData == [k |-> "nondata"]            \* no "data: " prefix
LDone == [k |-> "done"]                  \* data: [DONE]
\* data: <JSON with a "choices" array and no "type">; choices: the array is
\* not empty, delta: choices[0] has a delta, content: delta.content,
\* finish: choices[0].finish_reason ("null" for null or none).
LOpenAI(choices, delta, content, finish) ==
    [k |-> "openai", choices |-> choices, delta |-> delta,
     content |-> content, finish |-> finish]
\* data: <JSON that deserialises to a StreamEvent>
LAnthropic(event) == [k |-> "anthropic", event |-> event]
\* data: <JSON cut short>: serde reports "EOF while parsing ..."
LPartial == [k |-> "partial"]
\* data: <anything else serde rejects>; heartbeat: it contains "HEARTBEAT"
LInvalid(heartbeat) == [k |-> "invalid", heartbeat |-> heartbeat]

\* if text.trim() == "data: [DONE]"
IsDoneChunk(lines) == SelectSeq(lines, LAMBDA l : l.k # "blank") = <<LDone>>

\* for line in lines { ... }: the events yielded, and stream_ended.
RECURSIVE DecodeLines(_, _, _)
DecodeLines(lines, events, ended) ==
    IF lines = <<>> THEN [events |-> events, ended |-> ended]
    ELSE LET l == Head(lines)
             rest == Tail(lines)
         IN  CASE l.k \in {"blank", "nondata", "done", "partial"} ->
                      DecodeLines(rest, events, ended)
               [] l.k = "openai" ->
                      IF l.choices /\ l.delta
                        THEN DecodeLines(rest,
                                 IF IsSome(l.content) /\ l.content.text # <<>>
                                   THEN Append(events, EvDelta(l.content.text))
                                   ELSE events,
                                 ended)
                      ELSE IF l.choices /\ l.finish # "null"
                        THEN [events |-> Append(events, EvStop),
                              ended |-> TRUE]
                      ELSE DecodeLines(rest, events, ended)
               [] l.k = "anthropic" ->
                      DecodeLines(rest, Append(events, l.event),
                                  ended \/ l.event = EvStop)
               [] l.k = "invalid" ->
                      DecodeLines(rest,
                          IF ~l.heartbeat
                            THEN Append(events, EvErr("Internal", FALSE))
                            ELSE events,
                          ended)

\* Ok(chunk) => { if let Ok(text) = String::from_utf8(..) { ... } }
Decode(chunk) ==
    IF ~chunk.utf8 THEN [events |-> <<>>, ended |-> FALSE]
    ELSE IF IsDoneChunk(chunk.lines)
      THEN [events |-> <<EvStop>>, ended |-> TRUE]
    ELSE DecodeLines(chunk.lines, <<>>, FALSE)

\* First poll of stream::once(Err(e)): build_headers had failed.
AnthropicHeadersFailed ==
    /\ pc = "answer"
    /\ anthropic_stream = "once_err"
    /\ pending = <<>>
    /\ pending' = <<EvErr("Internal", FALSE)>>
    /\ anthropic_stream' = "returned"
    /\ UNCHANGED <<mode, response, pc, rxOpen, tx, clock, last_event_time,
                   reasoning_content, normal_content, content_buffer,
                   deepseek_stream, dsArrived, anthropic_messages,
                   combined_system_prompt, anStatus,
                   anChunks, anArrived, dsPulled, dsFailed, anError>>
    /\ UNCHANGED chatVars
    /\ UNCHANGED <<dsRequests, anRequests>>
    /\ UNCHANGED envVars
    /\ UNCHANGED wireVars
    /\ UNCHANGED clientVars

\* A generator that goes back to its POST after a failed one.
StreamRetriesRequest(outcome) ==
    IF outcome = "success" THEN "body" ELSE "created"

\* After the POST: `yield Err(..); return;` when the send failed or the
\* status is not a success, else the generator goes on to read the body.
StreamAfterRequest(outcome) ==
    IF outcome = "success" THEN "body" ELSE "returned"

\* First poll of the stream: client.post(..).send().await and the status
\* check.  eof: the error body carries the "EOF while parsing" signature.
AnthropicRequest(outcome, eof) ==
    /\ pc = "answer"
    /\ anthropic_stream = "created"
    /\ pending = <<>>
    /\ CASE outcome = "request_failed" ->
              /\ pending' = <<EvErr("request_failed", FALSE)>>
              /\ anStatus' = "none"
         [] outcome = "api_error" ->
              /\ pending' = <<EvErr("api_error", eof)>>
              /\ anStatus' = "error"
         [] outcome = "success" ->
              /\ pending' = <<>>
              /\ anStatus' = "success"
    /\ anthropic_stream' = StreamAfterRequest(outcome)
    /\ UNCHANGED <<mode, response, pc, rxOpen, tx, clock, last_event_time,
                   reasoning_content, normal_content, content_buffer,
                   deepseek_stream, dsArrived, anthropic_messages,
                   combined_system_prompt, anChunks,
                   anArrived, dsPulled, dsFailed, anError>>
    /\ anRequests' = anRequests + 1
    /\ UNCHANGED chatVars
    /\ UNCHANGED dsRequests
    /\ UNCHANGED envVars
    /\ UNCHANGED wireVars
    /\ UNCHANGED clientVars

\* stream.next().await gave Some(Ok(chunk)).
AnthropicChunk(chunk) ==
    /\ pc = "answer"
    /\ anthropic_stream = "body"
    /\ pending = <<>>
    /\ dsPulled + anChunks < MaxUpstreamReads
    /\ anChunks' = anChunks + 1
    /\ pending' = Decode(chunk).events
    /\ anthropic_stream' = IF Decode(chunk).ended THEN "returned" ELSE "body"
    /\ UNCHANGED <<mode, response, pc, rxOpen, tx, clock, last_event_time,
                   reasoning_content, normal_content, content_buffer,
                   deepseek_stream, dsArrived, anthropic_messages,
                   combined_system_prompt, anStatus,
                   anArrived, dsPulled, dsFailed, anError>>
    /\ UNCHANGED chatVars
    /\ UNCHANGED <<dsRequests, anRequests>>
    /\ UNCHANGED envVars
    /\ UNCHANGED wireVars
    /\ UNCHANGED clientVars

\* stream.next().await gave Some(Err(e)).
AnthropicChunkErr ==
    /\ pc = "answer"
    /\ anthropic_stream = "body"
    /\ pending = <<>>
    /\ pending' = <<EvErr("stream_error", FALSE)>>
    /\ anthropic_stream' = "returned"
    /\ UNCHANGED <<mode, response, pc, rxOpen, tx, clock, last_event_time,
                   reasoning_content, normal_content, content_buffer,
                   deepseek_stream, dsArrived, anthropic_messages,
                   combined_system_prompt, anStatus,
                   anChunks, anArrived, dsPulled, dsFailed, anError>>
    /\ UNCHANGED chatVars
    /\ UNCHANGED <<dsRequests, anRequests>>
    /\ UNCHANGED envVars
    /\ UNCHANGED wireVars
    /\ UNCHANGED clientVars

\* stream.next().await gave None.
AnthropicEof ==
    /\ pc = "answer"
    /\ anthropic_stream = "body"
    /\ pending = <<>>
    /\ anthropic_stream' = "returned"
    /\ UNCHANGED <<mode, response, pc, rxOpen, tx, clock, last_event_time,
                   reasoning_content, normal_content, content_buffer,
                   deepseek_stream, dsArrived, anthropic_messages,
                   combined_system_prompt, anStatus,
                   anChunks, pending, anArrived, dsPulled, dsFailed, anError>>
    /\ UNCHANGED chatVars
    /\ UNCHANGED <<dsRequests, anRequests>>
    /\ UNCHANGED envVars
    /\ UNCHANGED wireVars
    /\ UNCHANGED clientVars

\* ---------------------------------------------------------- Answer phase
\* if now - last_event_time > heartbeat_interval
HeartbeatDue(now, last) == now - last > HeartbeatSeconds

\* A delta arm without its emptiness test.
DeltaOfAnyText(e) == e.ev = "ContentBlockDelta"

\* StreamEvent::ContentBlockDelta { delta, .. } => if !delta.text.is_empty()
DeltaPresent(e) == e.ev = "ContentBlockDelta" /\ e.text # <<>>

\* One iteration of `while let Some(result) = anthropic_stream.next().await`
\* with Some(Ok(response)): what it sends, what it leaves behind and whether
\* it leaves the loop.  d is the time each tx.send takes to complete.
AnswerOk(e, d) ==
    LET now    == clock
        hb     == HeartbeatDue(now, last_event_time)
        hbFail == hb /\ ~rxOpen
        t1     == IF hb /\ rxOpen THEN now + d ELSE now
        tx1    == IF hb /\ rxOpen
                    THEN Send(tx, Stamp(HeartbeatEvent, Phase, t1))
                    ELSE tx
        let1   == IF hb /\ rxOpen THEN now ELSE last_event_time
        delta  == ~hbFail /\ DeltaPresent(e)
        stop   == ~hbFail /\ e.ev = "MessageStop"
        t2     == IF (delta \/ stop) /\ rxOpen THEN t1 + d ELSE t1
        tx2    == IF delta /\ rxOpen
                    THEN Send(tx1, Stamp(ContentEvent(e.text), Phase, t2))
                  ELSE IF stop /\ rxOpen
                    THEN Send(Send(tx1, Stamp(FinishEvent, Phase, t2)),
                              Stamp(DoneEvent, Phase, t2))
                  ELSE tx1
        let2   == IF delta /\ rxOpen THEN now ELSE let1
    IN  [tx |-> tx2, clock |-> t2, last_event_time |-> let2,
         content_buffer |-> IF delta THEN content_buffer \o e.text
                                     ELSE content_buffer,
         leave |-> hbFail \/ (delta /\ ~rxOpen) \/ stop]

\* An error arm that goes on with the loop after its error chunk.
AnswerErrThenContinue(e, d) ==
    LET send == ~e.eof /\ rxOpen
        t1   == IF send THEN clock + d ELSE clock
    IN  [tx |-> IF send THEN Send(tx, Stamp(ErrorEvent, Phase, t1)) ELSE tx,
         clock |-> t1, last_event_time |-> last_event_time,
         content_buffer |-> content_buffer,
         leave |-> FALSE]

\* The same iteration with Some(Err(e)).
AnswerErr(e, d) ==
    LET send == ~e.eof /\ rxOpen
        t1   == IF send THEN clock + d ELSE clock
    IN  [tx |-> IF send THEN Send(tx, Stamp(ErrorEvent, Phase, t1))
                        ELSE tx,
         clock |-> t1, last_event_time |-> last_event_time,
         content_buffer |-> content_buffer,
         leave |-> ~e.eof]

AnswerEvent(d) ==
    /\ pc = "answer"
    /\ pending # <<>>
    /\ LET e == Head(pending)
           r == IF e.ok THEN AnswerOk(e, d) ELSE AnswerErr(e, d)
       IN  /\ r.clock <= MaxClock
           /\ anArrived' = IF e.ok /\ e.ev = "ContentBlockDelta"
                              THEN Append(anArrived, e.text)
                              ELSE anArrived
           /\ anError' = IF ~e.ok /\ ~e.eof THEN e.type_ ELSE anError
           /\ tx' = r.tx
           /\ clock' = r.clock
           /\ last_event_time' = r.last_event_time
           /\ content_buffer' = r.content_buffer
           /\ IF r.leave
                THEN /\ pc' = "ended"
                     /\ anthropic_stream' = "dropped"
                     /\ pending' = <<>>
                ELSE /\ pc' = "answer"
                     /\ anthropic_stream' = anthropic_stream
                     /\ pending' = Tail(pending)
    /\ UNCHANGED <<mode, response, rxOpen, reasoning_content, normal_content,
                   deepseek_stream, dsArrived, anthropic_messages,
                   combined_system_prompt, anStatus,
                   anChunks, dsPulled, dsFailed>>
    /\ UNCHANGED chatVars
    /\ UNCHANGED <<dsRequests, anRequests>>
    /\ UNCHANGED envVars
    /\ UNCHANGED wireVars
    /\ UNCHANGED clientVars

\* anthropic_stream.next() returned None: the loop ends, the stream is
\* dropped and the task, with tx, ends.
\* Where the task is once `while let Some(result) =
\* anthropic_stream.next().await` got None: at the end of its block.
AfterAnswerLoopWaits == "answer"
AfterAnswerLoop == "ended"

AnswerStreamEnd ==
    /\ pc = "answer"
    /\ pending = <<>>
    /\ anthropic_stream = "returned"
    /\ pc' = AfterAnswerLoop
    /\ anthropic_stream' = "dropped"
    /\ UNCHANGED <<mode, response, rxOpen, tx, clock, last_event_time,
                   reasoning_content, normal_content, content_buffer,
                   deepseek_stream, dsArrived, anthropic_messages,
                   combined_system_prompt, anStatus,
                   anChunks, pending, anArrived, dsPulled, dsFailed, anError>>
    /\ UNCHANGED chatVars
    /\ UNCHANGED <<dsRequests, anRequests>>
    /\ UNCHANGED envVars
    /\ UNCHANGED wireVars
    /\ UNCHANGED clientVars

\* ------------------------------------------------- non-streaming handler
\* Vec<String>::join("")
RECURSIVE Concat(_)
Concat(texts) ==
    IF texts = <<>> THEN <<>> ELSE Head(texts) \o Concat(Tail(texts))

\* content: anthropic_response.content.into_iter().map(|block| ..text)
\*     .collect::<Vec<_>>().join("").trim_start().to_string()
ChatContent(blocks) == TrimStart(Concat(blocks))

\* reasoning_content: if mode == "full" && has_normal_content {
\*     Some(format!("deepseek原始回答:{}", normal_content)) }
\*     else { Some(reasoning_content.clone()) }
ChatReasoningContent(m, reasoning, normal) ==
    IF m = "full" /\ Trim(normal) # <<>>
      THEN Some(<<Sentinel>> \o normal)
      ELSE Some(reasoning)

\* deepseek_client.chat(..).await? and the two extractions that follow it:
\* the call fails, or the first choice or its reasoning_content is missing
\* (DeepSeekError), or the two texts are taken and the thinking message is
\* pushed.
\* deepseek_response.choices.first()
\*     .and_then(|c| c.message.reasoning_content.as_ref())
ReasoningContentOrDefault(result) ==
    Some(IF IsSome(result.reasoning_content)
           THEN result.reasoning_content.text ELSE <<>>)
ReasoningContentOf(result) ==
    IF result.choice /\ IsSome(result.reasoning_content)
      THEN Some(result.reasoning_content.text) ELSE Null

ChatDeepSeek(result) ==
    /\ pc = "chat_deepseek"
    /\ dsRequests' = DeepSeekPost(dsRequests)
    /\ deepseek_response' = Some(result)
    /\ IF result.ok /\ IsSome(ReasoningContentOf(result))
         THEN LET reasoning == ReasoningContentOf(result).text
                  normal == IF IsSome(result.content)
                              THEN result.content.text ELSE <<>>
              IN  /\ reasoning_content' = reasoning
                  /\ normal_content' = normal
                  /\ anthropic_messages' =
                         ThinkingMessage(mode, reasoning, normal)
                  /\ combined_system_prompt' =
                         CombinedSystemPrompt(mode, ClaudeSystemPromptChat,
                                              request)
                  /\ response' = response
                  /\ pc' = "chat_anthropic"
         ELSE /\ response' = "DeepSeekError"
              /\ pc' = "failed"
              /\ UNCHANGED <<reasoning_content, normal_content,
                             anthropic_messages,
                   combined_system_prompt>>
    /\ UNCHANGED <<mode, rxOpen, tx, clock, last_event_time, content_buffer,
                   deepseek_stream, dsArrived, anthropic_stream, anStatus,
                   anChunks, pending, anArrived, dsPulled, dsFailed, anError,
                   anRequests>>
    /\ UNCHANGED <<request, headers, env, tokens, anthropic_response,
                   message, messages>>
    /\ UNCHANGED envVars
    /\ UNCHANGED wireVars
    /\ UNCHANGED clientVars

\* The body of the Answer upstream's HTTP response.  keywords: the text
\* contains "id", "content" and one of "message", "text".
\* A JSON object that deserialises to an AnthropicResponse with these
\* content blocks.
BodyMessage(keywords, blocks) ==
    [k |-> "message", keywords |-> keywords, blocks |-> blocks,
     text |-> Concat(blocks), choices |-> <<>>]
\* Any other JSON value: text is what extract_content_from_response takes
\* out of it, choices its choices[0].message.content (or nothing).
BodyJson(keywords, text, choices) ==
    [k |-> "json", keywords |-> keywords, blocks |-> <<>>, text |-> text,
     choices |-> choices]
\* Not JSON.
BodyGarbage(keywords) ==
    [k |-> "garbage", keywords |-> keywords, blocks |-> <<>>, text |-> <<>>,
     choices |-> <<>>]

\* What the POST of AnthropicClient::chat meets: the send fails, or a
\* response of some status comes back whose text can or cannot be read.
PostFailed ==
    [sent |-> FALSE, status |-> "none", readable |-> FALSE,
     body |-> BodyGarbage(FALSE)]
PostAnswered(status, readable, body) ==
    [sent |-> TRUE, status |-> status, readable |-> readable, body |-> body]

\* parse_deepseek_response
ParseDeepseekResponse(status, body) ==
    IF body.k = "garbage"
      THEN ChatErr("parse_error", TRUE, status)
      ELSE ChatOk(status, <<body.choices>>)

\* AnthropicClient::chat: the two checks of the messages, build_headers,
\* the POST, the text of the response (`let _status = response.status();`
\* is read and not used), then the parse by dialect.
AnthropicChat(messages_empty, last_blank, headersOk, is_deepseek, o) ==
    IF messages_empty \/ last_blank
      THEN ChatErr("validation_error", FALSE, "none")
    ELSE IF ~headersOk THEN ChatErr("build_headers", FALSE, "none")
    ELSE IF ~o.sent THEN ChatErr("request_failed", TRUE, "none")
    ELSE IF ~o.readable THEN ChatErr("io_error", TRUE, o.status)
    ELSE IF is_deepseek THEN ParseDeepseekResponse(o.status, o.body)
    ELSE IF o.body.keywords /\ o.body.k = "message"
      THEN ChatOk(o.status, o.body.blocks)
    ELSE IF o.body.keywords /\ o.body.k = "json" /\ o.body.text # <<>>
      THEN ChatOk(o.status, <<o.body.text>>)
    ELSE ChatErr("parse_error", TRUE, o.status)

\* The messages handed to anthropic_client.chat: those of the request (the
\* top-level system prompt among them) and the thinking message, if pushed.
MessagesEmpty ==
    /\ request.messages = "empty"
    /\ ~request.system
    /\ anthropic_messages = Absent
LastAssistantBlank ==
    /\ request.messages = "assistant_blank"
    /\ anthropic_messages = Absent

\* anthropic_client.chat(..).await? and the response built from it.
ChatAnthropic(headersOk, is_deepseek, o) ==
    /\ pc = "chat_anthropic"
    /\ LET r == AnthropicChat(MessagesEmpty, LastAssistantBlank, headersOk,
                              is_deepseek, o)
       IN  /\ anthropic_response' = r
           /\ anRequests' = IF r.posted THEN anRequests + 1 ELSE anRequests
           /\ IF r.tag = "Ok"
                THEN /\ response' = "Json"
                     /\ message' =
                            [content |-> ChatContent(r.content),
                             reasoning_content |->
                                 ChatReasoningContent(mode, reasoning_content,
                                                      normal_content)]
                     /\ pc' = "responded"
                ELSE /\ response' = "AnthropicError"
                     /\ message' = message
                     /\ pc' = "failed"
    /\ UNCHANGED <<mode, rxOpen, tx, clock, request, headers, env, tokens,
                   dsRequests, messages, deepseek_response>>
    /\ UNCHANGED taskVars
    /\ UNCHANGED envVars
    /\ UNCHANGED wireVars
    /\ UNCHANGED clientVars

\* What deepseek_client.chat may return.
DsResponses ==
    {DsErr, DsOk(FALSE, Absent, Absent), DsOk(TRUE, Absent, Some(<<"c">>)),
     DsOk(TRUE, Some(<<>>), Absent), DsOk(TRUE, Some(<<"a">>), Absent),
     DsOk(TRUE, Some(<<Space>>), Absent),
     DsOk(TRUE, Some(<<"a">>), Some(<<>>)),
     DsOk(TRUE, Some(<<"a">>), Some(<<Space>>)),
     DsOk(TRUE, Some(<<"a">>), Some(<<"c">>)),
     DsOk(TRUE, Some(<<"a", Sentinel>>), Some(<<Space, "c", Space>>))}

AnBodies ==
    {BodyMessage(TRUE, <<<<"x">>>>),
     BodyMessage(TRUE, <<<<Space, "y">>, <<"x">>>>),
     BodyMessage(TRUE, <<>>), BodyMessage(FALSE, <<>>),
     BodyJson(TRUE, <<"e">>, <<>>), BodyJson(TRUE, <<"x">>, <<"x">>),
     BodyJson(TRUE, <<>>, <<>>), BodyJson(FALSE, <<"e">>, <<>>),
     BodyGarbage(TRUE), BodyGarbage(FALSE)}

\* What the POST of anthropic_client.chat may meet.
AnPosts ==
    {PostFailed}
    \cup {PostAnswered(st, FALSE, BodyGarbage(FALSE)) : st \in {"2xx", "non2xx"}}
    \cup {PostAnswered(st, TRUE, b) : st \in {"2xx", "non2xx"}, b \in AnBodies}

\* ------------------------------------------- update_env_variables, readers
\* update_env_variables up to the end of its for loop: the file is read
\* and the variable of the payload is set in memory.
UpdateRead(u) ==
    /\ upc[u] = "start"
    /\ env_content' =
           [env_content EXCEPT
               ![u] = UpdateLine(ReadOrEmpty(env_file), payload[u].key,
                                 payload[u].value)]
    /\ upc' = [upc EXCEPT ![u] = "modified"]
    /\ UNCHANGED <<env_file, payload, seen>>
    /\ UNCHANGED <<mode, response, pc, rxOpen, tx, clock, dsRequests,
                   anRequests>>
    /\ UNCHANGED taskVars
    /\ UNCHANGED chatVars
    /\ UNCHANGED wireVars
    /\ UNCHANGED clientVars

\* let mut file = fs::File::create(&env_path): the file is created, or
\* truncated when it exists.
UpdateCreate(u) ==
    /\ upc[u] = "modified"
    /\ env_file' = FileOf(<<>>)
    /\ upc' = [upc EXCEPT ![u] = "created"]
    /\ UNCHANGED <<env_content, payload, seen>>
    /\ UNCHANGED <<mode, response, pc, rxOpen, tx, clock, dsRequests,
                   anRequests>>
    /\ UNCHANGED taskVars
    /\ UNCHANGED chatVars
    /\ UNCHANGED wireVars
    /\ UNCHANGED clientVars

\* file.write_all(env_content.as_bytes()) and the success response.
UpdateWrite(u) ==
    /\ upc[u] = "created"
    /\ env_file' = WriteAll(env_file, env_content[u])
    /\ upc' = [upc EXCEPT ![u] = "done"]
    /\ UNCHANGED <<env_content, payload, seen>>
    /\ UNCHANGED <<mode, response, pc, rxOpen, tx, clock, dsRequests,
                   anRequests>>
    /\ UNCHANGED taskVars
    /\ UNCHANGED chatVars
    /\ UNCHANGED wireVars
    /\ UNCHANGED clientVars

\* fs::read_to_string(&env_path) of a reader: get_env_variables,
\* get_env_api_tokens, read_env_from_dotenv.
ReadEnv ==
    /\ seen' = env_file
    /\ UNCHANGED <<env_file, upc, env_content, payload>>
    /\ UNCHANGED <<mode, response, pc, rxOpen, tx, clock, dsRequests,
                   anRequests>>
    /\ UNCHANGED taskVars
    /\ UNCHANGED chatVars
    /\ UNCHANGED wireVars
    /\ UNCHANGED clientVars

\* ------------------------------------------- the wire adapter on its own
\* A line whose JSON a chunk boundary may fall into.
Cuttable(l) == l.k \in {"openai", "anthropic"}

\* One iteration of `while let Some(chunk_result) = stream.next().await`
\* of run r with Ok(chunk), the chunk being the rest of a line that was cut
\* (it has no "data: " prefix), the next n lines of the body and, with
\* cutEnd, the first part of the line after them (its JSON is cut short).
WireChunk(r, n, cutEnd) ==
    /\ ~stream_ended[r]
    /\ LET start == IF wire_partial[r] THEN wire_read[r] + 1 ELSE wire_read[r]
           rest  == IF wire_partial[r] THEN <<LNonData>> ELSE <<>>
           whole == SubSeq(wire_body, start + 1, start + n)
           first == IF cutEnd THEN <<LPartial>> ELSE <<>>
           chunk == [utf8 |-> TRUE, lines |-> rest \o whole \o first]
       IN  /\ start + n <= Len(wire_body)
           /\ cutEnd => /\ start + n < Len(wire_body)
                         /\ Cuttable(wire_body[start + n + 1])
           /\ chunk.lines # <<>>
           /\ wire_read' = [wire_read EXCEPT ![r] = start + n]
           /\ wire_partial' = [wire_partial EXCEPT ![r] = cutEnd]
           /\ wire_split' =
                  [wire_split EXCEPT
                      ![r] = IF cutEnd THEN @ \cup {start + n + 1} ELSE @]
           /\ wire_events' =
                  [wire_events EXCEPT ![r] = @ \o Decode(chunk).events]
           /\ stream_ended' = [stream_ended EXCEPT ![r] = Decode(chunk).ended]
    /\ UNCHANGED wire_body
    /\ UNCHANGED <<mode, response, pc, rxOpen, tx, clock, dsRequests,
                   anRequests>>
    /\ UNCHANGED taskVars
    /\ UNCHANGED chatVars
    /\ UNCHANGED envVars
    /\ UNCHANGED clientVars

\* ---------------------------------------------------------- specification
DsItems ==
    {DsErr, DsOk(FALSE, Absent, Absent),
     DsOk(TRUE, Some(<<>>), Absent), DsOk(TRUE, Some(<<"a">>), Absent),
     DsOk(TRUE, Some(<<"a", Sentinel, "b">>), Absent),
     DsOk(TRUE, Absent, Some(<<>>)), DsOk(TRUE, Absent, Some(<<"c">>)),
     DsOk(TRUE, Some(<<"b", Sentinel>>), Some(<<"d">>))}

AnLines ==
    {LBlank, LNonData, LDone, LPartial, LInvalid(FALSE), LInvalid(TRUE),
     LOpenAI(FALSE, FALSE, Absent, "null"),
     LOpenAI(TRUE, TRUE, Some(<<"x">>), "null"),
     LOpenAI(TRUE, TRUE, Some(<<>>), "stop"),
     LOpenAI(TRUE, FALSE, Absent, "stop"),
     LOpenAI(TRUE, FALSE, Absent, "null"),
     LAnthropic(EvDelta(<<Space, "y">>)), LAnthropic(EvDelta(<<>>)),
     LAnthropic(EvStop), LAnthropic(EvOther("Ping"))}

\* Every one-line chunk, and the two-line chunks in which the place of a
\* line in its chunk decides what the decoder does with it.
AnChunkLines ==
    {<<l>> : l \in AnLines} \cup
    {<<LOpenAI(TRUE, TRUE, Some(<<"x">>), "null"), LDone>>,
     <<LBlank, LDone>>, <<LDone, LBlank>>,
     <<LOpenAI(TRUE, TRUE, Some(<<"x">>), "null"),
       LOpenAI(TRUE, FALSE, Absent, "stop")>>,
     <<LOpenAI(TRUE, FALSE, Absent, "stop"),
       LOpenAI(TRUE, TRUE, Some(<<"x">>), "null")>>,
     <<LOpenAI(TRUE, TRUE, Some(<<"x">>), "null"),
       LAnthropic(EvDelta(<<Space, "y">>))>>,
     <<LAnthropic(EvDelta(<<Space, "y">>)), LAnthropic(EvStop)>>,
     <<LAnthropic(EvStop), LAnthropic(EvDelta(<<Space, "y">>))>>,
     <<LInvalid(FALSE), LAnthropic(EvDelta(<<Space, "y">>))>>,
     <<LPartial, LNonData>>}

AnNetChunks ==
    {[utf8 |-> TRUE, lines |-> ls] : ls \in AnChunkLines}
        \cup {[utf8 |-> FALSE, lines |-> <<>>]}

\* Time advances, and a blocked tx.send lasts, in steps of half a heartbeat
\* interval rounded up: two steps exceed the interval, one does not.
TickStep == HeartbeatSeconds \div 2 + 1
SendDelays == {0, TickStep}

Next ==
    \/ ChatStream
    \/ ClientDisconnect
    \/ Tick(2 * TickStep)
    \/ TaskStart
    \/ \E item \in DsItems : ReasoningItem(item, 0)
    \/ \E h \in BOOLEAN : ReasoningEnd(h)
    \/ AnthropicHeadersFailed
    \/ \E o \in {"request_failed", "api_error", "success"}, eof \in BOOLEAN :
           AnthropicRequest(o, eof)
    \/ \E chunk \in AnNetChunks : AnthropicChunk(chunk)
    \/ AnthropicChunkErr
    \/ AnthropicEof
    \/ AnswerEvent(0)
    \/ AnswerStreamEnd
    \/ Chat
    \/ \E result \in DsResponses : ChatDeepSeek(result)
    \/ \E h, d \in BOOLEAN, o \in AnPosts : ChatAnthropic(h, d, o)

Spec == Init /\ [][Next]_vars

\* The same task with a finer clock and tx.send calls that may block, on
\* a connected client and upstreams that answer.
DsItemsTimed == {DsOk(TRUE, Some(<<"a">>), Absent)}

AnNetChunksTimed ==
    {[utf8 |-> TRUE, lines |-> <<l>>] :
        l \in {LOpenAI(TRUE, TRUE, Some(<<"x">>), "null"),
               LAnthropic(EvStop), LAnthropic(EvOther("Ping"))}}

NextTimed ==
    \/ ChatStream
    \/ Tick(TickStep)
    \/ TaskStart
    \/ \E item \in DsItemsTimed, d \in SendDelays : ReasoningItem(item, d)
    \/ ReasoningEnd(TRUE)
    \/ AnthropicRequest("success", FALSE)
    \/ \E chunk \in AnNetChunksTimed : AnthropicChunk(chunk)
    \/ AnthropicEof
    \/ \E d \in SendDelays : AnswerEvent(d)
    \/ AnswerStreamEnd

SpecTimed == Init /\ [][NextTimed]_vars

\* The streaming task with its scheduling: the runtime polls the task
\* whenever it can advance, and every await on an upstream stream gets an
\* item, an error or the end of the stream.
TaskStep ==
    \/ TaskStart
    \/ \E item \in DsItemsTimed \cup {DsErr} : ReasoningItem(item, 0)
    \/ \E h \in BOOLEAN : ReasoningEnd(h)
    \/ AnthropicHeadersFailed
    \/ \E o \in {"request_failed", "api_error", "success"}, eof \in BOOLEAN :
           AnthropicRequest(o, eof)
    \/ \E chunk \in AnNetChunksTimed \cup
                      {[utf8 |-> TRUE, lines |-> <<LDone>>],
                       [utf8 |-> FALSE, lines |-> <<>>]} :
           AnthropicChunk(chunk)
    \/ AnthropicChunkErr
    \/ AnthropicEof
    \/ AnswerEvent(0)
    \/ AnswerStreamEnd

NextLive ==
    \/ ChatStream
    \/ ClientDisconnect
    \/ Tick(2 * TickStep)
    \/ TaskStep

SpecLive == Init /\ [][NextLive]_vars /\ WF_vars(TaskStep)

\* Both handlers on any request, any headers and any .env file, with
\* upstreams that answer.
NextRequests ==
    \/ ChatStream
    \/ TaskStart
    \/ \E item \in DsItemsTimed : ReasoningItem(item, 0)
    \/ ReasoningEnd(TRUE)
    \/ AnthropicRequest("success", FALSE)
    \/ \E chunk \in AnNetChunksTimed : AnthropicChunk(chunk)
    \/ AnthropicEof
    \/ AnswerEvent(0)
    \/ AnswerStreamEnd
    \/ Chat
    \/ \E result \in DsResponses : ChatDeepSeek(result)
    \/ \E o \in AnPosts : ChatAnthropic(TRUE, FALSE, o)

SpecRequests == InitRequests /\ [][NextRequests]_vars

\* Two calls of update_env_variables, each setting one variable, and the
\* readers of .env, on worker threads of the runtime that share no lock.
InitEnv ==
    /\ InitTask
    /\ request = [stream |-> FALSE, messages |-> "user", system |-> FALSE]
    /\ headers = [authorization |-> "absent", x_anthropic_api_token |-> FALSE]
    /\ env \in EnvFiles
    /\ env_file = EnvFileOf(env)
    /\ upc = [u \in Updaters |-> "start"]
    /\ env_content = [u \in Updaters |-> <<>>]
    /\ payload \in {[u \in Updaters |->
                        IF u = 1 THEN EnvLine("DEEPSEEK_API_KEY", "1")
                                 ELSE EnvLine(k, "2")] :
                     k \in {"DEEPSEEK_API_KEY", "ANTHROPIC_API_KEY"}}
    /\ seen = Unread
    /\ WireIdle
    /\ ClientIdle

NextEnv ==
    \/ \E u \in Updaters : UpdateRead(u)
    \/ \E u \in Updaters : UpdateCreate(u)
    \/ \E u \in Updaters : UpdateWrite(u)
    \/ ReadEnv

SpecEnv == InitEnv /\ [][NextEnv]_vars

\* get_env_variables: the lines of the file as a map, a later line of a
\* key taking the place of an earlier one.
GetEnvVariables(file) ==
    [k \in {file.lines[i].key : i \in 1..Len(file.lines)} |->
        LET at == {i \in 1..Len(file.lines) : file.lines[i].key = k}
        IN  file.lines[CHOOSE i \in at : \A j \in at : j <= i].value]

\* One call of update_env_variables that sets one variable, on any .env
\* file, and the readers of .env.
InitFrame ==
    /\ InitTask
    /\ request = [stream |-> FALSE, messages |-> "user", system |-> FALSE]
    /\ headers = [authorization |-> "absent", x_anthropic_api_token |-> FALSE]
    /\ env \in EnvFiles
    /\ env_file = EnvFileOf(env)
    /\ upc = [u \in Updaters |-> "start"]
    /\ env_content = [u \in Updaters |-> <<>>]
    /\ payload \in {[u \in Updaters |-> EnvLine(k, v)] :
                       k \in {"API_KEY", "DEEPSEEK_API_KEY", "MODE"},
                       v \in {"1", "2"}}
    /\ seen = Unread
    /\ WireIdle
    /\ ClientIdle

NextFrame ==
    \/ UpdateRead(1)
    \/ UpdateCreate(1)
    \/ UpdateWrite(1)
    \/ ReadEnv

SpecFrame == InitFrame /\ [][NextFrame]_vars

\* The bodies of the Answer upstream's streamed responses: an optional
\* first line, content frames of either dialect, and the ways a stream
\* closes (message_stop, a finish_reason frame with or without a delta
\* object, [DONE], or nothing).
WireStarts ==
    {<<>>, <<LAnthropic(EvOther("Ping"))>>, <<LBlank>>}
WireContents ==
    {<<LAnthropic(EvDelta(<<Space, "y">>))>>,
     <<LOpenAI(TRUE, TRUE, Some(<<"x">>), "null")>>,
     <<LOpenAI(TRUE, TRUE, Some(<<"x">>), "null"),
       LOpenAI(TRUE, TRUE, Some(<<"z">>), "null")>>}
WireEnds ==
    {<<>>, <<LAnthropic(EvStop)>>, <<LDone>>,
     <<LOpenAI(TRUE, TRUE, Some(<<>>), "stop"), LDone>>,
     <<LOpenAI(TRUE, FALSE, Absent, "length"), LDone>>,
     <<LOpenAI(TRUE, TRUE, Some(<<"x">>), "length")>>}
WireBodies ==
    {a \o b \o c : a \in WireStarts, b \in WireContents, c \in WireEnds}

InitWire ==
    /\ InitTask
    /\ request = [stream |-> TRUE, messages |-> "user", system |-> FALSE]
    /\ headers = [authorization |-> "bearer", x_anthropic_api_token |-> TRUE]
    /\ env = NoEnvFile
    /\ env_file = EnvFileOf(env)
    /\ EnvIdle
    /\ wire_body \in WireBodies
    /\ wire_read = [r \in Runs |-> 0]
    /\ wire_partial = [r \in Runs |-> FALSE]
    /\ wire_split = [r \in Runs |-> {}]
    /\ wire_events = [r \in Runs |-> <<>>]
    /\ stream_ended = [r \in Runs |-> FALSE]
    /\ ClientIdle

NextWire ==
    \E r \in Runs, n \in 0..Len(wire_body), cutEnd \in BOOLEAN :
        WireChunk(r, n, cutEnd)

SpecWire == InitWire /\ [][NextWire]_vars

\* ------------------------------------------------ the Answer client's call
\* update_env_variables run from its read to its write with no other
\* thread in between.
UpdateEnvVariables(u) ==
    /\ upc[u] = "start"
    /\ env_file' = FileOf(UpdateLine(ReadOrEmpty(env_file), payload[u].key,
                                     payload[u].value))
    /\ upc' = [upc EXCEPT ![u] = "done"]
    /\ UNCHANGED <<env_content, payload, seen>>
    /\ UNCHANGED <<mode, response, pc, rxOpen, tx, clock, dsRequests,
                   anRequests>>
    /\ UNCHANGED taskVars
    /\ UNCHANGED chatVars
    /\ UNCHANGED wireVars
    /\ UNCHANGED clientVars

\* chat and chat_stream: the model name is read and the endpoint chosen.
ClientSelectEndpoint ==
    /\ client_pc = "start"
    /\ api_url' = SelectApiUrl(env_file, config.body)
    /\ client_pc' = "selected"
    /\ UNCHANGED <<config, out_headers, out_request>>
    /\ UNCHANGED <<mode, response, pc, rxOpen, tx, clock, dsRequests,
                   anRequests>>
    /\ UNCHANGED taskVars
    /\ UNCHANGED chatVars
    /\ UNCHANGED envVars
    /\ UNCHANGED wireVars

\* self.build_headers(Some(&config.headers), _is_deepseek): the call ends
\* on its error.
ClientBuildHeaders ==
    /\ client_pc = "selected"
    /\ out_headers' = BuildHeaders(env_file, config._api_token, config.headers,
                                   api_url.is_deepseek)
    /\ client_pc' = IF out_headers'.ok THEN "headers" ELSE "failed"
    /\ UNCHANGED <<config, api_url, out_request>>
    /\ UNCHANGED <<mode, response, pc, rxOpen, tx, clock, dsRequests,
                   anRequests>>
    /\ UNCHANGED taskVars
    /\ UNCHANGED chatVars
    /\ UNCHANGED envVars
    /\ UNCHANGED wireVars

\* self.build_request(messages, system, stream, config); the POST is next.
ClientBuildRequest ==
    /\ client_pc = "headers"
    /\ out_request' = BuildRequest(env_file, config.system, config.stream,
                                   config.body)
    /\ client_pc' = "post"
    /\ UNCHANGED <<config, api_url, out_headers>>
    /\ UNCHANGED <<mode, response, pc, rxOpen, tx, clock, dsRequests,
                   anRequests>>
    /\ UNCHANGED taskVars
    /\ UNCHANGED chatVars
    /\ UNCHANGED envVars
    /\ UNCHANGED wireVars

\* The .env files the client reads: the keys, and each endpoint unset, set
\* to nothing or set.
OpenaiUrl == "http://openai-style"
AnthropicUrl == "http://anthropic-native"
ClientEnvFiles ==
    {NoFile} \cup
    {FileOf(keys \o o \o a) :
        keys \in {<<>>, <<EnvLine("DEEPSEEK_API_KEY", "0"),
                          EnvLine("ANTHROPIC_API_KEY", "1")>>},
        o \in {<<>>, <<EnvLine("CLAUDE_OPENAI_TYPE_API_URL", "")>>,
               <<EnvLine("CLAUDE_OPENAI_TYPE_API_URL", OpenaiUrl)>>},
        a \in {<<>>, <<EnvLine("ANTHROPIC_API_URL", "")>>,
               <<EnvLine("ANTHROPIC_API_URL", AnthropicUrl)>>}}

\* ApiConfig.body: a model or none, and further keys.
ClientBodies ==
    {MapExtend(m, rest) :
        m \in {<<>>} \cup {MapInsert(<<>>, "model", JStr(n)) : n \in ModelNames}
                     \cup {MapInsert(<<>>, "model", JNum("7"))},
        rest \in {<<>>,
                  MapInsert(<<>>, "max_tokens", JNum("1000")),
                  MapInsert(MapInsert(MapInsert(<<>>,
                      "stream", JBool(FALSE)),
                      "messages", JArr("body_messages")),
                      "system", JStr(<<"body_system">>)),
                  MapInsert(MapInsert(<<>>,
                      "temperature", JNum("0")),
                      "top_k", JNum("5"))}}

\* ApiConfig.headers
ClientHeaders ==
    {<<>>,
     MapInsert(<<>>, "anthropic-beta", <<"tools">>),
     MapInsert(MapInsert(<<>>,
         "Authorization", Bearer("custom")),
         "X-Api-Key", <<"custom">>),
     MapInsert(<<>>, "Content-Type", <<"text/plain">>),
     MapInsert(<<>>, "bad name", <<"x">>)}

\* One call of the client on any configuration and any .env file, and one
\* call of update_env_variables on another thread.
InitClient ==
    /\ InitTask
    /\ request = [stream |-> FALSE, messages |-> "user", system |-> FALSE]
    /\ headers = [authorization |-> "bearer", x_anthropic_api_token |-> TRUE]
    /\ env_file \in ClientEnvFiles
    /\ env = [exists |-> env_file.exists,
              keys |-> {env_file.lines[i].key : i \in 1..Len(env_file.lines)}
                       \cap EnvKeys]
    /\ upc = [u \in Updaters |-> "start"]
    /\ env_content = [u \in Updaters |-> <<>>]
    /\ payload \in {[u \in Updaters |-> l] :
                       l \in {EnvLine("CLAUDE_OPENAI_TYPE_API_URL", ""),
                              EnvLine("ANTHROPIC_API_URL", AnthropicUrl)}}
    /\ seen = Unread
    /\ WireIdle
    /\ client_pc = "start"
    /\ config \in [body : ClientBodies, headers : ClientHeaders,
                    _api_token : {"caller"},
                    system : {Null, Some(<<"engine_system">>)},
                    stream : BOOLEAN]
    /\ api_url = NoUrl
    /\ out_headers = NoHeaders
    /\ out_request = <<>>

NextClient ==
    \/ ClientSelectEndpoint
    \/ ClientBuildHeaders
    \/ ClientBuildRequest
    \/ UpdateEnvVariables(1)

SpecClient == InitClient /\ [][NextClient]_vars

\* ----------------------------------------------------------------- claims
IsRoleChunk(f) ==
    /\ f.kind = "chunk"
    /\ f.role = "assistant"
    /\ f.content = Absent
    /\ f.reasoning_content = Absent
IsFinishChunk(f) == f.kind = "chunk" /\ f.finish_reason # "null"
IsDoneFrame(f) == f.kind = "done"
IsErrorChunk(f) == f.kind = "error"
IsHeartbeat(f) == f.kind = "chunk" /\ f.heartbeat

Positions(P(_)) == {i \in 1..Len(tx) : P(tx[i])}
Count(P(_)) == Cardinality(Positions(P))

IsPrefix(a, b) == Len(a) <= Len(b) /\ SubSeq(b, 1, Len(a)) = a

RECURSIVE NonEmptyTexts(_)
NonEmptyTexts(ts) ==
    IF ts = <<>> THEN <<>>
    ELSE (IF Head(ts) # <<>> THEN <<Head(ts)>> ELSE <<>>)
         \o NonEmptyTexts(Tail(ts))

\* The task has ended on a client that stayed connected to the end.
EndedConnected == pc = "ended" /\ rxOpen

\* Both upstreams answered 2xx and neither stream ended on an error of any
\* kind (transport or parse).
SuccessfulRun ==
    /\ anStatus = "success"
    /\ ~dsFailed
    /\ anError = "none"

\* C1: a successful run that has ended has sent the finish chunk exactly
\* once, then [DONE] exactly once, and nothing after them.
C1_FinishThenDoneOnce ==
    (EndedConnected /\ SuccessfulRun) =>
        /\ Len(tx) >= 2
        /\ IsFinishChunk(tx[Len(tx) - 1])
        /\ IsDoneFrame(tx[Len(tx)])
        /\ Count(IsFinishChunk) = 1
        /\ Count(IsDoneFrame) = 1

\* C2: the first frame sent is the role chunk (delta.role = "assistant" and
\* nothing else in delta), no later frame is one, and the task does not get
\* past its start without having sent it.
C2_RoleChunkFirstOnce ==
    /\ tx # <<>> => Positions(IsRoleChunk) = {1}
    /\ pc \in {"reasoning", "answer"} => tx # <<>>

C2_Witness ==
    /\ pc = "ended"
    /\ Len(tx) >= 4
    /\ \E i \in 1..Len(tx) : IsSome(tx[i].reasoning_content)
    /\ \E i \in 1..Len(tx) : IsSome(tx[i].content)

\* C3: a frame sent in the Reasoning phase carries no content and no empty
\* reasoning_content; a frame sent in the Answer phase carries no
\* reasoning_content and no empty content.
C3_PhaseFields ==
    \A i \in 1..Len(tx) :
        /\ tx[i].phase = "Reasoning" =>
               /\ ~IsSome(tx[i].content)
               /\ IsSome(tx[i].reasoning_content) =>
                      tx[i].reasoning_content.text # <<>>
        /\ tx[i].phase = "Answer" =>
               /\ ~IsSome(tx[i].reasoning_content)
               /\ IsSome(tx[i].content) => tx[i].content.text # <<>>

C3_Witness ==
    /\ \E i \in 1..Len(tx) :
           tx[i].phase = "Reasoning" /\ IsSome(tx[i].reasoning_content)
    /\ \E i \in 1..Len(tx) : tx[i].phase = "Answer" /\ IsSome(tx[i].content)
    /\ \E i \in 1..Len(tx) : IsHeartbeat(tx[i])
    /\ \E i \in 1..Len(anArrived) : anArrived[i] = <<>>

\* C4: the Answer stream exists only once the Reasoning stream has ended,
\* the Reasoning stream is read only while no Answer stream exists, and in
\* the outbound stream no reasoning_content frame follows a content frame.
C4_PhasesSequential ==
    /\ (anthropic_stream # "none" \/ anStatus # "none" \/ anChunks > 0) =>
           deepseek_stream = "ended"
    /\ pc = "reasoning" => deepseek_stream = "open"
    /\ \A i, j \in 1..Len(tx) :
           (IsSome(tx[i].content) /\ IsSome(tx[j].reasoning_content)) => j < i

C4_Witness ==
    /\ anChunks > 0
    /\ dsPulled > 0
    /\ \E i \in 1..Len(tx) : IsSome(tx[i].reasoning_content)
    /\ \E i \in 1..Len(tx) : IsSome(tx[i].content)

\* The texts of the frames of one field, in the order of the outbound
\* stream.
RECURSIVE FrameTexts(_, _)
FrameTexts(frames, field) ==
    IF frames = <<>> THEN <<>>
    ELSE (IF IsSome(Head(frames)[field])
            THEN <<Head(frames)[field].text>> ELSE <<>>)
         \o FrameTexts(Tail(frames), field)

\* What the Reasoning phase forwards of the deltas that arrived, in the
\* order of their arrival: in normal mode every non-empty reasoning delta;
\* in full mode a reasoning delta from its sentinel on, and every non-empty
\* content delta, the first of them behind the sentinel.
RECURSIVE ForwardedInOrder(_, _, _)
ForwardedInOrder(m, deltas, seenContent) ==
    IF deltas = <<>> THEN <<>>
    ELSE LET dl == Head(deltas)
             isR == dl.field = "reasoning_content" /\ dl.text # <<>>
             isC == dl.field = "content" /\ dl.text # <<>>
             out == IF isR /\ m = "normal" THEN <<dl.text>>
                    ELSE IF isR /\ ContainsSentinel(dl.text)
                      THEN <<FromSentinel(dl.text)>>
                    ELSE IF isC /\ m = "full"
                      THEN <<(IF seenContent THEN <<>> ELSE <<Sentinel>>)
                             \o dl.text>>
                    ELSE <<>>
         IN  out \o ForwardedInOrder(m, Tail(deltas), seenContent \/ isC)

\* C5: the texts forwarded in each phase are, in order and once each, the
\* texts of the deltas that arrived in that phase (all of them while the
\* client is connected, a prefix of them once it is gone).
C5_ArrivalOrderKept ==
    LET sentR == FrameTexts(tx, "reasoning_content")
        sentC == FrameTexts(tx, "content")
        wantR == ForwardedInOrder(mode, dsArrived, FALSE)
        wantC == NonEmptyTexts(anArrived)
    IN  /\ IsPrefix(sentR, wantR)
        /\ IsPrefix(sentC, wantC)
        /\ rxOpen => (sentR = wantR /\ sentC = wantC)

C5_Witness ==
    /\ rxOpen
    /\ Len(FrameTexts(tx, "reasoning_content")) >= 2
    /\ Len(FrameTexts(tx, "content")) >= 2
    /\ tx[Len(tx)].content # tx[Len(tx) - 1].content

\* C6: two outbound frames that are not heartbeats, with none but
\* heartbeats between them and more than 15 seconds apart, have a heartbeat
\* between them; and when 30 seconds pass between the role chunk and the
\* next frame that is not a heartbeat, two heartbeats lie between them.
C6_HeartbeatEvery15s ==
    \A i, j \in 1..Len(tx) :
        (/\ i < j
         /\ ~IsHeartbeat(tx[i])
         /\ ~IsHeartbeat(tx[j])
         /\ \A k \in (i + 1)..(j - 1) : IsHeartbeat(tx[k])) =>
            /\ tx[j].at - tx[i].at > HeartbeatSeconds => j - i >= 2
            /\ (i = 1 /\ tx[j].at - tx[i].at >= 2 * HeartbeatSeconds) =>
                   j - i >= 3

\* C7: a heartbeat is sent only when more than 15 seconds have passed
\* since the frame before it in the outbound stream was sent.
C7_HeartbeatOnlyAfter15s ==
    \A i \in 2..Len(tx) :
        IsHeartbeat(tx[i]) => tx[i].at - tx[i - 1].at > HeartbeatSeconds

\* C8: once the Answer loop has met a transport error or a parse error on a
\* connected client, the task has ended, the stream is dropped, the error
\* chunk is the last frame and the only error chunk, and neither a finish
\* chunk nor [DONE] was sent.
C8_AnswerFailureEndsWithOneError ==
    (anError \in {"stream_error", "Internal"} /\ rxOpen) =>
        /\ pc = "ended"
        /\ anthropic_stream = "dropped"
        /\ tx # <<>>
        /\ Positions(IsErrorChunk) = {Len(tx)}
        /\ Count(IsFinishChunk) = 0
        /\ Count(IsDoneFrame) = 0

C8_Witness ==
    /\ anError = "stream_error"
    /\ rxOpen
    /\ anStatus = "success"
    /\ \E i \in 1..Len(tx) : IsSome(tx[i].content)

\* C9: once the Reasoning stream has yielded a failure on a connected
\* client, the task has ended with exactly one error chunk and no Answer
\* stream was ever created.
C9_ReasoningFailureFails ==
    (dsFailed /\ rxOpen) =>
        /\ pc = "ended"
        /\ Count(IsErrorChunk) = 1
        /\ anthropic_stream = "none"

\* C10: when the Answer upstream answers with a non-2xx status, the handler
\* has answered with the 502 error and no frame was ever sent.
C10_UpstreamStatusGives502 ==
    anStatus = "error" => (StatusCode(response) = 502 /\ tx = <<>>)

\* C11: whatever the request and whatever the upstreams do, at most one
\* HTTP request has been sent to the Reasoning upstream and at most one to
\* the Answer upstream.
C11_AtMostOneRequestEach ==
    /\ dsRequests <= 1
    /\ anRequests <= 1

\* Both paths have met a failing Answer upstream.
C11_Witness ==
    /\ dsRequests = 1
    /\ anRequests = 1
    /\ \/ pc = "ended" /\ anError \in {"request_failed", "api_error"}
       \/ pc = "failed" /\ anthropic_response.type_ = "request_failed"

\* The request has a system prompt both top-level and inline.
SystemPromptConflict == request.system /\ request.messages = "system_inline"

\* Neither the headers nor the .env file yield both credentials.
NoCredentials ==
    /\ ~(headers.authorization = "bearer" /\ headers.x_anthropic_api_token)
    /\ ~(env.exists /\ EnvKeys \subseteq env.keys)

\* C12: once a handler has dealt with a request whose system prompt does not
\* validate or whose credentials cannot be resolved, it has returned the
\* error, no upstream request was sent and no chunk was emitted.
C12_FailFast ==
    (pc # "request" /\ (SystemPromptConflict \/ NoCredentials)) =>
        /\ pc = "rejected"
        /\ response \in {"InvalidSystemPrompt", "MissingHeader"}
        /\ dsRequests = 0
        /\ anRequests = 0
        /\ tx = <<>>

C12_Witness ==
    /\ pc = "rejected"
    /\ response = "MissingHeader"
    /\ ~SystemPromptConflict

\* C13: a request whose messages list is empty (and whose credentials
\* resolve) has no upstream request sent for it, and once its handling is
\* over it was rejected as a validation error (400).
C13_EmptyMessagesRejected ==
    (request.messages = "empty" /\ ~NoCredentials) =>
        /\ dsRequests = 0
        /\ anRequests = 0
        /\ pc \in {"rejected", "failed", "responded", "ended"} =>
               (pc = "rejected" /\ StatusCode(response) = 400)

RECURSIVE DeltaTexts(_, _)
DeltaTexts(deltas, field) ==
    IF deltas = <<>> THEN <<>>
    ELSE (IF Head(deltas).field = field /\ Head(deltas).text # <<>>
            THEN <<Head(deltas).text>> ELSE <<>>)
         \o DeltaTexts(Tail(deltas), field)

\* C15: in normal mode, on a connected client, the reasoning_content
\* chunks are, one for one and in order, the non-empty reasoning deltas that
\* arrived, each with its text unchanged; the reasoning buffer holds them
\* all, the normal buffer holds the content deltas, and none of these was
\* forwarded.
C15_NormalModeForwardsReasoning ==
    (request.stream /\ mode = "normal" /\ rxOpen) =>
        /\ FrameTexts(tx, "reasoning_content") =
               DeltaTexts(dsArrived, "reasoning_content")
        /\ reasoning_content =
               Concat(DeltaTexts(dsArrived, "reasoning_content"))
        /\ normal_content = Concat(DeltaTexts(dsArrived, "content"))

C15_Witness ==
    /\ mode = "normal"
    /\ rxOpen
    /\ Len(FrameTexts(tx, "reasoning_content")) >= 2
    /\ \E i \in 1..Len(dsArrived) :
           /\ dsArrived[i].field = "reasoning_content"
           /\ ContainsSentinel(dsArrived[i].text)
    /\ normal_content # <<>>

\* The reasoning deltas that arrived without the sentinel in them.
RawReasoning ==
    {dsArrived[i].text : i \in {j \in 1..Len(dsArrived) :
        /\ dsArrived[j].field = "reasoning_content"
        /\ dsArrived[j].text # <<>>
        /\ ~ContainsSentinel(dsArrived[j].text)}}

\* C16: in full mode no chunk carries the text of a reasoning delta that
\* lacks the sentinel, every chunk that stems from a reasoning delta starts
\* at its sentinel, and on a connected client the reasoning buffer holds
\* every reasoning delta that arrived.
C16_FullModeFiltersReasoning ==
    (request.stream /\ mode = "full") =>
        /\ \A i \in 1..Len(tx) :
               IsSome(tx[i].reasoning_content) =>
                   /\ tx[i].reasoning_content.text \notin RawReasoning
                   /\ \/ Head(tx[i].reasoning_content.text) = Sentinel
                      \/ \E j \in 1..Len(dsArrived) :
                             /\ dsArrived[j].field = "content"
                             /\ dsArrived[j].text = tx[i].reasoning_content.text
        /\ rxOpen => reasoning_content =
                         Concat(DeltaTexts(dsArrived, "reasoning_content"))

C16_Witness ==
    /\ mode = "full"
    /\ rxOpen
    /\ RawReasoning # {}
    /\ reasoning_content # <<>>
    /\ \E i \in 1..Len(dsArrived) :
           /\ dsArrived[i].field = "reasoning_content"
           /\ ContainsSentinel(dsArrived[i].text)
    /\ Len(FrameTexts(tx, "reasoning_content")) >= 1

\* The first text behind the sentinel, the others as they are.
PrefixFirst(texts) ==
    IF texts = <<>> THEN <<>>
    ELSE <<(<<Sentinel>> \o Head(texts))>> \o Tail(texts)

\* The chunk texts that stem from a content delta: such a text, bare or
\* behind the sentinel.
FromContentDelta(t) ==
    \E i \in 1..Len(dsArrived) :
        /\ dsArrived[i].field = "content"
        /\ dsArrived[i].text # <<>>
        /\ t \in {dsArrived[i].text, <<Sentinel>> \o dsArrived[i].text}

\* C17: in full mode, on a connected client, the chunks that stem from
\* content deltas of the Reasoning upstream are, one for one and in order,
\* the non-empty content deltas that arrived, the first of them behind the
\* prefix and no other.
C17_FullModePrefixFirstContent ==
    (request.stream /\ mode = "full" /\ rxOpen) =>
        SelectSeq(FrameTexts(tx, "reasoning_content"), FromContentDelta) =
            PrefixFirst(DeltaTexts(dsArrived, "content"))

\* A content delta, an empty one, then a content delta again.
C17_Witness ==
    /\ mode = "full"
    /\ rxOpen
    /\ \E i, j, k \in 1..Len(dsArrived) :
           /\ i < j /\ j < k
           /\ dsArrived[i].field = "content" /\ dsArrived[i].text # <<>>
           /\ dsArrived[j].field = "content" /\ dsArrived[j].text = <<>>
           /\ dsArrived[k].field = "content" /\ dsArrived[k].text # <<>>
    /\ Len(FrameTexts(tx, "reasoning_content")) >= 2

\* C18: when a streaming run has ended with its finish chunk on a connected
\* client, the concatenation of the content texts it forwarded equals the
\* content chat builds from the same texts of the Answer upstream.
C18_StreamEqualsChat ==
    (request.stream /\ EndedConnected /\ Count(IsFinishChunk) = 1) =>
        Concat(FrameTexts(tx, "content")) = ChatContent(anArrived)

\* C19: in the JSON response of chat, reasoning_content is the accumulated
\* reasoning text in normal mode, the sentinel followed by the trimmed
\* normal content in full mode with non-empty normal content, and is left
\* out otherwise.
C19_ChatReasoningField ==
    response = "Json" =>
        message.reasoning_content =
            IF mode = "normal" THEN Some(reasoning_content)
            ELSE IF normal_content # <<>>
              THEN Some(<<Sentinel>> \o Trim(normal_content))
            ELSE Absent

\* C20: when the POST of chat to the Answer upstream fails to connect or
\* meets a status that is not 2xx, the call returns an error and the client
\* gets no successful response.
C20_UpstreamFailureSurfaces ==
    (anthropic_response.posted /\ anthropic_response.status # "2xx") =>
        /\ anthropic_response.tag = "Err"
        /\ response # "Json"

\* The deltas the step of the first loop has just pulled.
NewDeltas == SubSeq(dsArrived', Len(dsArrived) + 1, Len(dsArrived'))

\* The step is one in which the task calls tx.send: the start of the task
\* (role chunk), an iteration of the first loop on a delta it forwards, an
\* iteration of the second loop that owes a heartbeat or handles a
\* non-empty delta, a stop or an error it reports.
AttemptsWrite ==
    \/ pc = "spawned" /\ pc' # "spawned"
    \/ /\ pc = "reasoning"
       /\ dsPulled' = dsPulled + 1
       /\ \E i \in 1..Len(NewDeltas) :
              /\ NewDeltas[i].text # <<>>
              /\ \/ /\ NewDeltas[i].field = "reasoning_content"
                    /\ ShouldSend(mode, NewDeltas[i].text)
                 \/ NewDeltas[i].field = "content" /\ mode = "full"
    \/ /\ pc = "answer"
       /\ pending # <<>>
       /\ pending' # pending
       /\ LET e == Head(pending)
          IN  IF e.ok
                THEN \/ HeartbeatDue(clock, last_event_time)
                     \/ DeltaPresent(e)
                     \/ e.ev = "MessageStop"
                ELSE ~e.eof

\* C21: once the client has disconnected no frame is accepted any more;
\* the first step in which the task attempts a write ends the task, whatever
\* its phase; and an ended task takes no further step: it reads from no
\* upstream stream, sends nothing and opens no upstream request.
C21_CancelOnFailedWrite ==
    [][/\ ~rxOpen => tx' = tx
       /\ (~rxOpen /\ AttemptsWrite) =>
              /\ pc' = "ended"
              /\ anthropic_stream' \in {"none", "dropped"}
              /\ anRequests' = anRequests
       /\ pc # "ended"]_vars

\* The client went away after two reasoning chunks and the task has ended
\* in the first loop, on the write of the third.
C21_Witness ==
    /\ ~rxOpen
    /\ pc = "ended"
    /\ deepseek_stream = "open"
    /\ dsPulled = 3
    /\ Len(tx) = 3
    /\ anRequests = 0

\* Both calls of update_env_variables have returned.
BothUpdated == \A u \in Updaters : upc[u] = "done"

HasLine(file, line) == \E i \in 1..Len(file.lines) : file.lines[i] = line

\* C22: when two calls of update_env_variables that set different keys
\* have both returned, the .env file holds both new values.
C22_NoLostUpdate ==
    (BothUpdated /\ payload[1].key # payload[2].key) =>
        \A u \in Updaters : HasLine(env_file, payload[u])

\* The contents the file has before the updates and after each serial
\* order of any of them.
SerialContents(file) ==
    LET set(c, u) == UpdateLine(c, payload[u].key, payload[u].value)
        c0 == ReadOrEmpty(file)
    IN  {file, FileOf(set(c0, 1)), FileOf(set(c0, 2)),
         FileOf(set(set(c0, 1), 2)), FileOf(set(set(c0, 2), 1))}

\* C23: what a reader of .env got is the complete content of the file
\* before the updates or after some of them, never an empty or a partly
\* written file.
C23_ReaderSeesWholeFile ==
    seen # Unread => seen \in SerialContents(EnvFileOf(env))

\* The run has read the whole body, or has ended before.
WireFinished(r) ==
    \/ stream_ended[r]
    \/ wire_read[r] = Len(wire_body) /\ ~wire_partial[r]

\* C24: two runs of the adapter over the same response body, each with its
\* own split into network chunks, have yielded the same events once both
\* have finished.
C24_SplitInvariant ==
    (\A r \in Runs : WireFinished(r)) =>
        wire_events["one"] = wire_events["other"]

\* C25: a data line whose JSON is rejected for another reason than a
\* premature end never reaches the second loop as an error: on a response
\* of success status that loop meets no Internal error.
C25_InvalidJsonDropped ==
    anStatus = "success" => anError # "Internal"

\* The literal line `data: [DONE]` is among the lines the run was handed.
DoneDelivered(r) == \E i \in 1..wire_read[r] : wire_body[i] = LDone

Yielded(r, e) == \E j \in 1..Len(wire_events[r]) : wire_events[r][j] = e

\* C26: a run that was handed the line `data: [DONE]`, alone in its chunk
\* or with other lines, has yielded the stop event and has ended.
C26_DoneAlwaysStops ==
    \A r \in Runs :
        DoneDelivered(r) => (stream_ended[r] /\ Yielded(r, EvStop))

\* C27: a run that was handed, in one piece, an OpenAI-dialect frame whose
\* choices[0].finish_reason is not null, with or without a delta object,
\* has yielded the stop event, and the finish chunk sent on that event
\* carries the reason of the frame.
C27_FinishReasonForwarded ==
    \A r \in Runs : \A i \in 1..wire_read[r] :
        (/\ i \notin wire_split[r]
         /\ wire_body[i].k = "openai"
         /\ wire_body[i].choices
         /\ wire_body[i].finish # "null") =>
            /\ Yielded(r, EvStop)
            /\ FinishEvent.finish_reason = wire_body[i].finish

\* The prompt of the Answer phase has been built: the first loop of
\* chat_stream is over, or chat has its answer from the Reasoning upstream.
PromptBuilt ==
    \/ anthropic_stream # "none"
    \/ pc = "chat_anthropic"
    \/ anthropic_response # NoResponse

\* C28: in normal mode the prompt of the Answer phase has the synthetic
\* assistant message "<thinking>\n" + reasoning + "</thinking>" exactly when
\* the accumulated reasoning is not blank, and none otherwise; before the
\* prompt is built there is none.
C28_NormalThinkingMessage ==
    /\ ~PromptBuilt => anthropic_messages = Absent
    /\ (PromptBuilt /\ mode = "normal") =>
           anthropic_messages =
               IF Trim(reasoning_content) # <<>>
                 THEN Some(<<"<thinking>">> \o reasoning_content
                           \o <<"</thinking>">>)
                 ELSE Absent

\* chat got a reasoning text of white space only and pushed nothing.
C28_Witness ==
    /\ mode = "normal"
    /\ pc = "chat_anthropic"
    /\ reasoning_content = <<Space>>
    /\ anthropic_messages = Absent

\* C29: in full mode the prompt of the Answer phase has the synthetic
\* assistant message "<thinking>\ndeepseek原始回答:" + trimmed normal
\* content + "</thinking>" exactly when the normal content is not blank, and
\* none otherwise, whatever the reasoning text; on the streaming path the
\* normal content is the concatenation of the content deltas in order.
C29_FullThinkingMessage ==
    (PromptBuilt /\ mode = "full") =>
        /\ anthropic_messages =
               IF Trim(normal_content) # <<>>
                 THEN Some(<<"<thinking>", Sentinel>> \o Trim(normal_content)
                           \o <<"</thinking>">>)
                 ELSE Absent
        /\ request.stream =>
               normal_content = Concat(DeltaTexts(dsArrived, "content"))

\* Two content deltas arrived on the streaming path, beside reasoning.
C29_Witness ==
    /\ mode = "full"
    /\ request.stream
    /\ PromptBuilt
    /\ Len(DeltaTexts(dsArrived, "content")) = 2
    /\ reasoning_content # <<>>
    /\ IsSome(anthropic_messages)

\* C30: the system prompt of the Answer phase is the caller's system prompt
\* (or none) in normal mode, and in full mode the fixed directive, followed
\* by a blank line and the caller's system prompt when there is one, the
\* directive being the same text on both paths.
C30_AnswerSystemPrompt ==
    PromptBuilt =>
        combined_system_prompt =
            IF mode = "normal" THEN GetSystemPrompt(request)
            ELSE IF IsSome(GetSystemPrompt(request))
              THEN Some(ClaudeSystemPromptChat \o <<"\n\n">>
                        \o GetSystemPrompt(request).text)
            ELSE Some(ClaudeSystemPromptChat)

\* The headers were built, and no .env update ran during the call.
HeadersBuilt == client_pc \in {"headers", "post"}
EnvUntouched == upc = [u \in Updaters |-> "start"]

\* The caller's custom headers name no authentication header.
AuthHeaders == {"authorization", "x-api-key"}
NoCustomAuth == {Lower(k) : k \in DOMAIN config.headers} \cap AuthHeaders = {}

\* The .env file sets the variable to something else than the empty text.
SetNonEmpty(key) ==
    LET v == ReadEnvFromDotenv(env_file, key) IN IsSome(v) /\ v.text # ""

\* C31: the endpoint and the credential of the Answer call follow from the
\* configuration and the model name alone: a model that starts with
\* deepseek, or is deepclaude, goes to the DeepSeek endpoint with the
\* DeepSeek credential; otherwise a set, non-empty Claude OpenAI-style
\* endpoint is used with the caller's credential; otherwise (that
\* endpoint unset or empty) the Anthropic-native endpoint is used with
\* ANTHROPIC_API_KEY.
C31_EndpointSelection ==
    (HeadersBuilt /\ EnvUntouched /\ NoCustomAuth) =>
        LET model_str == ModelStr(env_file, config.body)
            authorization == out_headers.headers["authorization"]
        IN  IF IsDeepseek(model_str)
              THEN /\ api_url.endpoint = "deepseek"
                   /\ authorization =
                          Bearer(ReadEnvFromDotenv(env_file,
                                                   "DEEPSEEK_API_KEY").text)
            ELSE IF SetNonEmpty("CLAUDE_OPENAI_TYPE_API_URL")
              THEN /\ api_url.endpoint = "openai"
                   /\ api_url.url = OpenaiUrl
                   /\ authorization = Bearer(config._api_token)
            ELSE /\ api_url.endpoint = "anthropic"
                 /\ authorization =
                        Bearer(ReadEnvFromDotenv(env_file,
                                                 "ANTHROPIC_API_KEY").text)

\* The caller's custom headers name none of the headers build_headers sets.
DefaultHeaders ==
    AuthHeaders \cup {"anthropic-version", "accept", "content-type"}
NoCustomDefaults ==
    {Lower(k) : k \in DOMAIN config.headers} \cap DefaultHeaders = {}

\* C32: what build_headers sets by itself: for the Anthropic-native dialect
\* x-api-key with the key, Authorization: Bearer with the key,
\* anthropic-version: 2023-06-01 and accept: text/event-stream; for every
\* other dialect Authorization: Bearer with a key and neither x-api-key nor
\* anthropic-version; content-type: application/json in every case.
C32_HeaderDiscipline ==
    (HeadersBuilt /\ EnvUntouched /\ NoCustomDefaults) =>
        LET h == out_headers.headers
        IN  /\ h["content-type"] = <<"application/json">>
            /\ "authorization" \in DOMAIN h
            /\ h["authorization"][1] = "Bearer"
            /\ IF api_url.endpoint = "anthropic"
                 THEN LET key == ReadEnvFromDotenv(env_file,
                                                   "ANTHROPIC_API_KEY").text
                      IN  /\ DefaultHeaders \subseteq DOMAIN h
                          /\ h["x-api-key"] = <<key>>
                          /\ h["authorization"] = Bearer(key)
                          /\ h["anthropic-version"] = <<"2023-06-01">>
                          /\ h["accept"] = <<"text/event-stream">>
                 ELSE /\ "x-api-key" \notin DOMAIN h
                      /\ "anthropic-version" \notin DOMAIN h

\* The headers of a native call that also carries a custom header.
C32_Witness ==
    /\ client_pc = "headers"
    /\ EnvUntouched
    /\ api_url.endpoint = "anthropic"
    /\ DOMAIN config.headers = {"anthropic-beta"}
    /\ DOMAIN out_headers.headers =
           DefaultHeaders \cup {"anthropic-beta"}

\* The credential build_headers resolved for the dialect of the call.
ResolvedCredential ==
    CASE api_url.endpoint = "deepseek" ->
             ReadEnvFromDotenv(env_file, "DEEPSEEK_API_KEY").text
      [] api_url.endpoint = "openai" -> config._api_token
      [] api_url.endpoint = "anthropic" ->
             ReadEnvFromDotenv(env_file, "ANTHROPIC_API_KEY").text

\* C33: the custom headers of the configuration are merged last and may
\* replace default headers, but not the authentication headers:
\* Authorization and x-api-key keep the values that come from the resolved
\* credential.
C33_CustomHeadersKeepAuth ==
    (HeadersBuilt /\ EnvUntouched) =>
        LET h == out_headers.headers
        IN  /\ \A n \in {Lower(k) : k \in DOMAIN config.headers} \ AuthHeaders :
                   h[n] = ClientsBuildHeaders(config.headers).headers[n]
            /\ h["authorization"] = Bearer(ResolvedCredential)
            /\ "x-api-key" \in DOMAIN h =>
                   /\ api_url.endpoint = "anthropic"
                   /\ h["x-api-key"] = <<ResolvedCredential>>

\* The request body was built.
RequestBuilt == client_pc = "post"

\* C34: in the body build_request returns, messages, system and stream are
\* the values the engine computed, whatever config.body says under those
\* keys; every other key of config.body is in the body with its value, in
\* place of the default (model, max_tokens, temperature 0.7, top_p 0.95)
\* or next to the defaults.
C34_ReservedFields ==
    RequestBuilt =>
        LET body == config.body
        IN  /\ out_request["messages"] = FilteredMessages
            /\ out_request["stream"] = JBool(config.stream)
            /\ IF IsSome(config.system)
                 THEN out_request["system"] = JStr(config.system.text)
                 ELSE "system" \notin DOMAIN out_request
            /\ \A k \in DOMAIN body \ {"messages", "system", "stream"} :
                   out_request[k] = body[k]
            /\ {"model", "max_tokens", "temperature", "top_p"}
                   \subseteq DOMAIN out_request
            /\ "temperature" \notin DOMAIN body =>
                   out_request["temperature"] = JNum("0.7")
            /\ "top_p" \notin DOMAIN body => out_request["top_p"] = JNum("0.95")
            /\ "model" \notin DOMAIN body =>
                   out_request["model"] = JStr(ClaudeDefaultModel)

\* A streamed call with a system prompt whose config.body names the three
\* reserved keys.
C34_Witness ==
    /\ RequestBuilt
    /\ {"messages", "system", "stream"} \subseteq DOMAIN config.body
    /\ config.stream
    /\ IsSome(config.system)
    /\ config.body["stream"] = JBool(FALSE)

\* C35: when config.body sets no max_tokens, the body carries 4096 if the
\* selected model name contains opus, and 8192 otherwise.
C35_DefaultMaxTokens ==
    (RequestBuilt /\ "max_tokens" \notin DOMAIN config.body) =>
        out_request["max_tokens"] =
            IF Contains(ModelStr(env_file, config.body), <<"opus">>)
              THEN JNum("4096") ELSE JNum("8192")

\* C37: the endpoint a call POSTs to and the authentication headers it
\* sends come from one dialect decision, also when update_env_variables
\* changes CLAUDE_OPENAI_TYPE_API_URL or ANTHROPIC_API_URL between the
\* read of .env that picks the endpoint and the read inside build_headers:
\* the native headers go to the native endpoint and to no other, and the
\* caller's credential goes to the OpenAI-style endpoint.
C37_OneDialectDecision ==
    (HeadersBuilt /\ NoCustomDefaults) =>
        LET h == out_headers.headers
        IN  /\ api_url.endpoint = "anthropic" <=>
                   {"x-api-key", "anthropic-version"} \subseteq DOMAIN h
            /\ api_url.endpoint = "openai" =>
                   h["authorization"] = Bearer(config._api_token)

C38_UpdateFrame ==
    (upc[1] = "done" /\ seen = env_file) =>
        LET before == GetEnvVariables(EnvFileOf(env))
            after == GetEnvVariables(seen)
            K == payload[1].key
        IN  /\ K \in DOMAIN after
            /\ after[K] = payload[1].value
            /\ DOMAIN after = DOMAIN before \cup {K}
            /\ \A k \in DOMAIN before \ {K} : after[k] = before[k]

\* C39: in chat the Answer upstream is called only after the Reasoning
\* call returned a response whose first choice has reasoning_content; when
\* the Reasoning call fails, or its response has no choice or no
\* reasoning_content, in either mode, chat returns the DeepSeek error, the
\* Answer upstream is never called and no message is returned.
C39_AnswerOnlyAfterReasoning ==
    ~request.stream =>
        LET returned == IsSome(deepseek_response)
            r == deepseek_response.text
            usable == returned /\ r.ok /\ r.choice
                          /\ IsSome(r.reasoning_content)
        IN  /\ (anRequests > 0 \/ anthropic_response # NoResponse
                   \/ pc \in {"chat_anthropic", "responded"}) =>
                   usable /\ dsRequests = 1
            /\ (returned /\ ~usable) =>
                   /\ response = "DeepSeekError"
                   /\ pc = "failed"
                   /\ anRequests = 0
                   /\ anthropic_response = NoResponse
                   /\ message = NoMessage

\* A full-mode chat whose Reasoning response had content and no
\* reasoning_content.
C39_Witness ==
    /\ ~request.stream
    /\ mode = "full"
    /\ deepseek_response = Some(DsOk(TRUE, Absent, Some(<<"c">>)))
    /\ response = "DeepSeekError"
    /\ anRequests = 0

\* The request went past validation and token extraction.
Accepted == pc \notin {"request", "rejected"}

\* C40: in normal mode, for chat and chat_stream alike, the list handed
\* to the Reasoning upstream has at most one system message; it is the
\* first element and carries the caller's top-level system prompt; the
\* inline system messages of the request are not in the list; and the
\* other messages are all there in the order the caller gave them.
C40_NormalReasoningMessages ==
    (Accepted /\ mode = "normal") =>
        LET at == {i \in 1..Len(messages) : messages[i].role = "system"}
            rest(list) == SelectSeq(list, LAMBDA m : m.role # "system")
        IN  /\ at = IF request.system THEN {1} ELSE {}
            /\ at # {} => messages[1].content = "caller_system"
            /\ rest(messages) = rest(MessagesOf(request.messages))

\* An accepted request with an inline system message, in normal mode.
C40_Witness ==
    /\ Accepted
    /\ mode = "normal"
    /\ request.messages = "system_inline"
    /\ Len(messages) = 2

====
